---- MODULE Spec2Model ----
(***************************************************************************)
(* Verification model of the gaming backend's in-memory services:          *)
(*   - TournamentService   (the tournament registry)                       *)
(*   - TournamentRulesService (categories, prize split, recommendation)    *)
(*   - AchievementService  (unlock evaluation and notification)            *)
(*   - TournamentHistoryService (history snapshots)                        *)
(* The chain client (ContractService's ethers contracts) is an external    *)
(* boundary: each call either throws or returns a value drawn from a small *)
(* set of answers.                                                         *)
(***************************************************************************)
EXTENDS Integers, Sequences, FiniteSets, TLC

VARIABLES
  tournaments,       \* TournamentService.tournaments : Map<string, Tournament>
  lastOp,            \* outcome of the last registry operation (observer)
  rulesCall,         \* last TournamentRulesService call: inputs and result
  users,             \* UserService.users : Map<address, UserProfile.stats>
  notifications,     \* achievement_unlocked and level_up notifications emitted
  achPhase,          \* observer, per player: first_win "locked", criterion
                     \* "satisfied", or "checked" by checkAchievements since
  gameEvents,        \* observer, per player: GamePlayed events handled since
                     \* the player's profile was created
  tournamentHistory, \* TournamentHistoryService.tournamentHistory (by id)
  playerHistory,     \* TournamentHistoryService.playerHistory (ids by player)
  history,           \* TournamentHistoryService.history (snapshots by player)
  recorded,          \* observer, per id: how often recordTournament succeeded
                     \* and the snapshot it built last
  sharedPlayers,     \* ids whose snapshot holds the very players array of the
                     \* registry's Tournament object (players: tournament.players)
  lastRecord,        \* outcome of the last history operation (observer)
  games,             \* the chain's game history: outcomes by player address
  statsMap,          \* PlayerStatsService.stats, in Map insertion order
  rules,             \* TournamentRulesService.rules : Map<string, TournamentRules>
  trends,            \* result of the last getTournamentTrends call (observer)
  objects,           \* the players arrays of the Tournament objects, by reference
  registryRef,       \* the reference TournamentService.tournaments holds for the id
  joinPc,            \* per address: where its joinTournament call stands
  joinHeld,          \* per address: the Tournament its joinTournament call holds
  chainRoster,       \* the players the tournament contract has registered
  updatePc,          \* per updateStats call: where it stands
  currentStats,      \* per updateStats call: the stats getPlayerStats returned to it
  schedule,          \* the arguments of scheduleTournament (observer)
  timers,            \* the timers set with setTimeout and not run yet
  gatewayLog,        \* the calls the timer callbacks have made to the Gateway, in order
  callbackPc,        \* per timer callback: where it stands
  progress,          \* result of the last getPlayerProgress call (observer)
  sockets,           \* the WebSocket connections accepted so far: player and whether open
  wsConnections,     \* NotificationService.wsConnections (connection by address)
  lastPush,          \* the last createNotification: the connection it sent on (observer)
  sessions,          \* UserService.sessions : Map<token, UserSession>
  now,               \* the clock, in days
  issuedTo,          \* observer: the address every token was issued to, by token
  endedTokens,       \* observer: the tokens ended by endSession or endAllSessions
  sessionOp          \* the last session operation and what it returned (observer)

vars == <<tournaments, lastOp, rulesCall, users, notifications, achPhase,
          gameEvents,
          tournamentHistory, playerHistory, history, recorded, sharedPlayers,
          lastRecord, games, statsMap, rules,
          trends,
          objects, registryRef, joinPc, joinHeld, chainRoster,
          updatePc, currentStats,
          schedule, timers, gatewayLog, callbackPc,
          progress,
          sockets, wsConnections, lastPush,
          sessions, now, issuedTo, endedTokens, sessionOp>>

registryVars == <<tournaments, lastOp>>
rulesVars == <<rulesCall>>
achievementVars == <<users, notifications, achPhase, gameEvents>>
historyVars == <<tournamentHistory, playerHistory, history, recorded,
                 sharedPlayers, lastRecord>>
statsVars == <<games, statsMap>>
storeVars == <<rules>>
trendsVars == <<trends>>
raceVars == <<objects, registryRef, joinPc, joinHeld, chainRoster>>
statsCallsVars == <<updatePc, currentStats>>
schedVars == <<schedule, timers, gatewayLog, callbackPc>>
progressVars == <<progress>>
socketsVars == <<sockets, wsConnections, lastPush>>
sessionsVars == <<sessions, now, issuedTo, endedTokens, sessionOp>>

\* what each service's operations leave alone
notRegistry == <<rulesVars, achievementVars, historyVars, statsVars, storeVars,
    trendsVars,
    raceVars,
    statsCallsVars,
    schedVars,
    progressVars,
    socketsVars,
    sessionsVars>>
notRules == <<registryVars, achievementVars, historyVars, statsVars, storeVars,
    trendsVars,
    raceVars,
    statsCallsVars,
    schedVars,
    progressVars,
    socketsVars,
    sessionsVars>>
notAchievement == <<registryVars, rulesVars, historyVars, statsVars, storeVars,
    trendsVars,
    raceVars,
    statsCallsVars,
    schedVars,
    progressVars,
    socketsVars,
    sessionsVars>>
notHistory == <<registryVars, rulesVars, achievementVars, statsVars, storeVars,
    trendsVars,
    raceVars,
    statsCallsVars,
    schedVars,
    progressVars,
    socketsVars,
    sessionsVars>>
notStats == <<registryVars, rulesVars, achievementVars, historyVars, storeVars,
    trendsVars,
    raceVars,
    statsCallsVars,
    schedVars,
    progressVars,
    socketsVars,
    sessionsVars>>
notStore == <<registryVars, rulesVars, achievementVars, historyVars, statsVars,
    trendsVars,
    raceVars,
    statsCallsVars,
    schedVars,
    progressVars,
    socketsVars,
    sessionsVars>>
notSessions ==
  <<registryVars, rulesVars, achievementVars, historyVars, statsVars, storeVars,
    trendsVars, raceVars, statsCallsVars, schedVars, progressVars, socketsVars>>
notSockets ==
  <<registryVars, rulesVars, achievementVars, historyVars, statsVars, storeVars,
    trendsVars, raceVars, statsCallsVars, schedVars, progressVars, sessionsVars>>
\* what getPlayerProgress leaves alone, besides the statistics
notProgress ==
  <<registryVars, rulesVars, achievementVars, historyVars, storeVars, trendsVars,
    raceVars, statsCallsVars, schedVars, socketsVars, sessionsVars>>
notSched ==
  <<registryVars, rulesVars, achievementVars, historyVars, statsVars, storeVars,
    trendsVars, raceVars, statsCallsVars, progressVars, socketsVars, sessionsVars>>
\* what the steps of an updateStats call leave alone, besides the statistics
notStatsCalls ==
  <<registryVars, rulesVars, achievementVars, historyVars, storeVars, trendsVars,
    raceVars, schedVars, progressVars, socketsVars, sessionsVars>>
notRace ==
  <<registryVars, rulesVars, achievementVars, historyVars, statsVars, storeVars,
    trendsVars, statsCallsVars, schedVars, progressVars, socketsVars, sessionsVars>>
notTrends ==
  <<registryVars, rulesVars, achievementVars, historyVars, statsVars, storeVars,
    raceVars, statsCallsVars, schedVars, progressVars, socketsVars, sessionsVars>>

----------------------------------------------------------------------------
(* Bounds of the model *)

MaxRoster == 2       \* rosters are explored up to this length
MaxPool == 120       \* prize pools 0..MaxPool are distributed
MaxNegPool == 2      \* and the negative pools -MaxNegPool..-1
MaxPlayerCount == 51 \* player counts 0..MaxPlayerCount
MaxRecords == 2      \* recordTournament succeeds at most this often per id
MaxEvents == 3       \* GamePlayed events handled per profile
MaxGames == 2        \* games on the chain per player
MaxLimit == 3        \* getLeaderboard is asked for 0..MaxLimit entries
MaxJoins == 2        \* joinTournament succeeds at most this often per address
MaxSockets == 3      \* WebSocket connections accepted in a scenario
MaxTokens == 3       \* sessions created in a scenario
MaxClock == 3        \* the clock advances this often, a session's lifetime
                     \* each time

\* the tournament ids of the scenarios (ids are strings: a transaction hash
\* for a created tournament, a decimal number for an on-chain one)
TournamentIds == {"t1", "t2"}
\* the player addresses of the scenarios
Addresses == {"a1", "a2"}

----------------------------------------------------------------------------
(* Generic helpers for Map and Array *)

\* Map.set(k, v)
MapSet(m, k, v) == [x \in DOMAIN m \cup {k} |-> IF x = k THEN v ELSE m[x]]

EmptyMap == [x \in {} |-> 0]

\* Array.includes
Includes(s, e) == \E i \in 1..Len(s) : s[i] = e

\* number of occurrences of e in array s
Count(s, e) == Cardinality({i \in 1..Len(s) : s[i] = e})

----------------------------------------------------------------------------
(* Tournament registry: TournamentService *)

UPCOMING == "UPCOMING"
ACTIVE == "ACTIVE"
COMPLETED == "COMPLETED"
TournamentStatus == {UPCOMING, ACTIVE, COMPLETED}

\* position of a status in the lifecycle order UPCOMING < ACTIVE < COMPLETED
StatusRank(s) == CASE s = UPCOMING -> 0 [] s = ACTIVE -> 1 [] s = COMPLETED -> 2

\* ContractService.getTournamentStatus: on-chain status number -> enum
GetTournamentStatus(n) ==
  CASE n = 0 -> UPCOMING
    [] n = 1 -> ACTIVE
    [] n = 2 -> COMPLETED
    [] OTHER -> UPCOMING

\* Parameters a caller may pass to createTournament: valid ones, minPlayers >
\* maxPlayers, a negative entryFee, a negative prizePool.
CreateParams ==
  { [minPlayers |-> 1, maxPlayers |-> 1, entryFee |-> 1, prizePool |-> 1],
    [minPlayers |-> 2, maxPlayers |-> 1, entryFee |-> 1, prizePool |-> 1],
    [minPlayers |-> 1, maxPlayers |-> 1, entryFee |-> -1, prizePool |-> 1],
    [minPlayers |-> 1, maxPlayers |-> 1, entryFee |-> 1, prizePool |-> -1] }

ValidParams(p) ==
  p.minPlayers <= p.maxPlayers /\ p.entryFee >= 0 /\ p.prizePool >= 0

\* The on-chain records tournamentContract.getTournament may return: the
\* chain keeps winners only for a completed tournament (status number 2).
ChainInfos ==
  { [status |-> n, players |-> ps, winners |-> ws, maxPlayers |-> 1] :
      n \in 0..3, ps \in {<<"a1">>},
      ws \in {<<>>, <<[address |-> "a1", prize |-> 1, rank |-> 1]>>} }

ConsistentInfo(info) == info.winners # <<>> => info.status = 2

\* ContractService.getTournament: the Tournament built from an on-chain
\* record (a thrown error or a missing record gives null, see GatewayAnswers)
FromChain(info) ==
  [minPlayers |-> 1, maxPlayers |-> info.maxPlayers,
   entryFee |-> 1, prizePool |-> 1,
   status |-> GetTournamentStatus(info.status),
   players |-> info.players, winners |-> info.winners]

Null == [null |-> TRUE]

\* What contractService.getTournament(id) can answer
GatewayAnswers ==
  {Null} \cup {FromChain(info) : info \in {i \in ChainInfos : ConsistentInfo(i)}}

\* The Gateway is asked only on a cache miss
AnswersFor(id) == IF id \in DOMAIN tournaments THEN {Null} ELSE GatewayAnswers

\* createTournament: the stored record
NewTournament(p) ==
  [minPlayers |-> p.minPlayers, maxPlayers |-> p.maxPlayers,
   entryFee |-> p.entryFee, prizePool |-> p.prizePool,
   status |-> UPCOMING, players |-> <<>>, winners |-> <<>>]

NoAddr == "none"
NoId == "none"

Op(op, id, addr, result) ==
  [op |-> op, id |-> id, addr |-> addr, result |-> result]

\* TournamentService.createTournament (first variant).  gatewayOk: whether
\* contractService.createTournament returned a hash (the new id) or threw.
CreateTournament(id, p, gatewayOk) ==
  /\ id \notin DOMAIN tournaments
  /\ IF gatewayOk
       THEN /\ tournaments' = MapSet(tournaments, id, NewTournament(p))
            /\ lastOp' = Op("createTournament", id, NoAddr, "ok")
       ELSE /\ tournaments' = tournaments
            /\ lastOp' = Op("createTournament", id, NoAddr, "GatewayError")
  /\ UNCHANGED notRegistry

\* A getTournament that returns the Gateway's record without storing it
CacheAfterGet_NoStore(id, answer) == tournaments

\* TournamentService.getTournament (first variant): the registry after the
\* call, given the Gateway's answer for a cache miss
CacheAfterGet(id, answer) ==
  IF id \in DOMAIN tournaments \/ answer = Null
    THEN tournaments
    ELSE MapSet(tournaments, id, answer)

\* whether getTournament(id) calls contractService.getTournament: only when
\* the registry holds no tournament under id
GatewayAsked(id) == id \notin DOMAIN tournaments

\* what getTournament(id) returns: the registry's tournament, else the
\* Gateway's record, else null
GetTournamentResult(id, answer) ==
  IF ~GatewayAsked(id) THEN tournaments[id] ELSE answer

GetTournament(id, answer) ==
  /\ tournaments' = CacheAfterGet(id, answer)
  /\ lastOp' = Op("getTournament", id, NoAddr,
                  IF id \in DOMAIN tournaments' THEN "ok" ELSE "null")
  /\ UNCHANGED notRegistry

\* tournament.players.push(playerAddress); this.tournaments.set(id, tournament)
PushPlayer(m, id, addr) ==
  MapSet(m, id, [m[id] EXCEPT !.players = Append(@, addr)])

\* A joinTournament that appends the player before the Gateway call returns
JoinTournament_PushFirst(id, addr, answer, gatewayOk) ==
  LET cached == CacheAfterGet(id, answer) IN
  /\ IF id \notin DOMAIN cached
       THEN /\ tournaments' = cached
            /\ lastOp' = Op("joinTournament", id, addr, "NotFound")
       ELSE /\ Len(cached[id].players) < MaxRoster
            /\ tournaments' = PushPlayer(cached, id, addr)
            /\ lastOp' = Op("joinTournament", id, addr,
                            IF gatewayOk THEN "ok" ELSE "GatewayError")
  /\ UNCHANGED notRegistry

\* TournamentService.joinTournament (first variant)
JoinTournament(id, addr, answer, gatewayOk) ==
  LET cached == CacheAfterGet(id, answer) IN
  /\ IF id \notin DOMAIN cached
       THEN /\ tournaments' = cached
            /\ lastOp' = Op("joinTournament", id, addr, "NotFound")
       ELSE IF ~gatewayOk
         THEN /\ tournaments' = cached
              /\ lastOp' = Op("joinTournament", id, addr, "GatewayError")
         ELSE /\ Len(cached[id].players) < MaxRoster
              /\ tournaments' = PushPlayer(cached, id, addr)
              /\ lastOp' = Op("joinTournament", id, addr, "ok")
  /\ UNCHANGED notRegistry

\* TournamentService.joinTournament (second variant): Gateway call first,
\* then the push if the registry holds the id
JoinTournament2(id, addr, gatewayOk) ==
  /\ IF ~gatewayOk
       THEN /\ tournaments' = tournaments
            /\ lastOp' = Op("joinTournament", id, addr, "GatewayError")
       ELSE /\ id \in DOMAIN tournaments
                 => Len(tournaments[id].players) < MaxRoster
            /\ tournaments' = IF id \in DOMAIN tournaments
                                THEN PushPlayer(tournaments, id, addr)
                                ELSE tournaments
            /\ lastOp' = Op("joinTournament", id, addr, "ok")
  /\ UNCHANGED notRegistry

\* TournamentService.addPlayer (third variant), called by the PlayerJoined
\* listener of ContractService.setupEventListeners
AddPlayer(id, addr) ==
  /\ IF id \notin DOMAIN tournaments
       THEN /\ tournaments' = tournaments
            /\ lastOp' = Op("addPlayer", id, addr, "NotFound")
       ELSE /\ Len(tournaments[id].players) < MaxRoster
            /\ tournaments' = PushPlayer(tournaments, id, addr)
            /\ lastOp' = Op("addPlayer", id, addr, "ok")
  /\ UNCHANGED notRegistry

\* tournament.status = status; this.tournaments.set(id, tournament)
SetStatus(m, id, status) == MapSet(m, id, [m[id] EXCEPT !.status = status])

\* TournamentService.updateTournamentStatus (first and second variant)
UpdateTournamentStatus(id, status) ==
  /\ tournaments' = IF id \in DOMAIN tournaments
                      THEN SetStatus(tournaments, id, status)
                      ELSE tournaments
  /\ lastOp' = Op("updateTournamentStatus", id, NoAddr, "ok")
  /\ UNCHANGED notRegistry

\* The TournamentCompleted listener of ContractService.setupEventListeners:
\* TournamentService.updateTournamentStatus (third variant) with 'completed'
TournamentCompleted(id) ==
  /\ IF id \notin DOMAIN tournaments
       THEN /\ tournaments' = tournaments
            /\ lastOp' = Op("TournamentCompleted", id, NoAddr, "NotFound")
       ELSE /\ tournaments' = SetStatus(tournaments, id, COMPLETED)
            /\ lastOp' = Op("TournamentCompleted", id, NoAddr, "ok")
  /\ UNCHANGED notRegistry

RegistryInit ==
  /\ tournaments = EmptyMap
  /\ lastOp = Op("init", NoId, NoAddr, "ok")

RegistryNext ==
  \/ \E id \in TournamentIds, p \in CreateParams, ok \in BOOLEAN :
       CreateTournament(id, p, ok)
  \/ \E id \in TournamentIds : \E a \in AnswersFor(id) : GetTournament(id, a)
  \/ \E id \in TournamentIds, addr \in Addresses, ok \in BOOLEAN :
       \E a \in AnswersFor(id) : JoinTournament(id, addr, a, ok)
  \/ \E id \in TournamentIds, addr \in Addresses, ok \in BOOLEAN :
       JoinTournament2(id, addr, ok)
  \/ \E id \in TournamentIds, addr \in Addresses : AddPlayer(id, addr)
  \/ \E id \in TournamentIds, s \in TournamentStatus :
       UpdateTournamentStatus(id, s)
  \/ \E id \in TournamentIds : TournamentCompleted(id)

----------------------------------------------------------------------------
(* Tournament rules engine: TournamentRulesService *)

\* A bigint amount of wei, kept exact in two limbs: g * 10^9 + u, 0 <= u < 10^9
Wei(g, u) == [g |-> g, u |-> u]
WeiLT(a, b) == a.g < b.g \/ (a.g = b.g /\ a.u < b.u)
WeiLE(a, b) == a = b \/ WeiLT(a, b)

\* TournamentRulesService.initializeCategories
categories ==
  << [id |-> "beginner",
      minEntryFee |-> Wei(1000000, 0), maxEntryFee |-> Wei(10000000, 0),
      minPlayers |-> 2, maxPlayers |-> 10, duration |-> 24,
      prizeDistribution |->
        << [rank |-> 1, percentage |-> 60, minPlayers |-> 2],
           [rank |-> 2, percentage |-> 30, minPlayers |-> 4],
           [rank |-> 3, percentage |-> 10, minPlayers |-> 6] >>],
     [id |-> "intermediate",
      minEntryFee |-> Wei(10000000, 0), maxEntryFee |-> Wei(100000000, 0),
      minPlayers |-> 4, maxPlayers |-> 20, duration |-> 48,
      prizeDistribution |->
        << [rank |-> 1, percentage |-> 50, minPlayers |-> 4],
           [rank |-> 2, percentage |-> 30, minPlayers |-> 8],
           [rank |-> 3, percentage |-> 15, minPlayers |-> 12],
           [rank |-> 4, percentage |-> 5, minPlayers |-> 16] >>],
     [id |-> "expert",
      minEntryFee |-> Wei(100000000, 0), maxEntryFee |-> Wei(1000000000, 0),
      minPlayers |-> 8, maxPlayers |-> 50, duration |-> 72,
      prizeDistribution |->
        << [rank |-> 1, percentage |-> 40, minPlayers |-> 8],
           [rank |-> 2, percentage |-> 25, minPlayers |-> 16],
           [rank |-> 3, percentage |-> 15, minPlayers |-> 24],
           [rank |-> 4, percentage |-> 10, minPlayers |-> 32],
           [rank |-> 5, percentage |-> 5, minPlayers |-> 40],
           [rank |-> 6, percentage |-> 3, minPlayers |-> 48],
           [rank |-> 7, percentage |-> 2, minPlayers |-> 50] >>] >>

Undefined == [undefined |-> TRUE]

\* Array.find: the first element satisfying Test, or undefined
Find(s, Test(_)) ==
  IF \E i \in 1..Len(s) : Test(s[i])
    THEN s[CHOOSE i \in 1..Len(s) :
                 Test(s[i]) /\ \A j \in 1..(i - 1) : ~Test(s[j])]
    ELSE Undefined

\* TournamentRulesService.getCategoryById
GetCategoryById(id) == LET IsId(c) == c.id = id IN Find(categories, IsId)

\* bigint division: truncates toward zero
BigIntDiv(a, b) == IF a >= 0 THEN a \div b ELSE -((-a) \div b)

\* Array.filter, keeping the order
Filter(s, Test(_)) == SelectSeq(s, Test)

\* A prize split that rounds every amount up instead of truncating it
CalculatePrizeDistribution_RoundUp(categoryId, totalPrizePool, playerCount) ==
  LET category == GetCategoryById(categoryId)
      Met(rule) == playerCount >= rule.minPlayers
      paid == Filter(category.prizeDistribution, Met)
  IN [i \in 1..Len(paid) |->
        [rank |-> paid[i].rank,
         amount |-> BigIntDiv(totalPrizePool * (paid[i].percentage * 100) + 9999,
                              10000)]]

\* calculatePrizeDistribution without the filter on minPlayers: every rank
\* of the table is paid
CalculatePrizeDistribution_AllRanks(categoryId, totalPrizePool, playerCount) ==
  LET category == GetCategoryById(categoryId)
      paid == category.prizeDistribution
  IN [i \in 1..Len(paid) |->
        [rank |-> paid[i].rank,
         amount |-> BigIntDiv(totalPrizePool * (paid[i].percentage * 100),
                              10000)]]

\* TournamentRulesService.calculatePrizeDistribution, for a known category
\* (an unknown one throws 'Invalid category')
CalculatePrizeDistribution(categoryId, totalPrizePool, playerCount) ==
  LET category == GetCategoryById(categoryId)
      Met(rule) == playerCount >= rule.minPlayers
      paid == Filter(category.prizeDistribution, Met)
  IN [i \in 1..Len(paid) |->
        [rank |-> paid[i].rank,
         amount |-> BigIntDiv(totalPrizePool * (paid[i].percentage * 100),
                              10000)]]

\* TournamentRulesService.getRecommendedCategory.  winRate is given in
\* hundredths (0.3 is 30); the result is a category or undefined.
GetRecommendedCategory(playerStats) ==
  LET IsBeginner(c) == c.id = "beginner"
      IsIntermediate(c) == c.id = "intermediate"
      IsExpert(c) == c.id = "expert"
      tier == IF playerStats.totalGames < 10 \/ playerStats.winRate < 30
                THEN Find(categories, IsBeginner)
              ELSE IF playerStats.totalGames < 50 \/ playerStats.winRate < 50
                THEN Find(categories, IsIntermediate)
              ELSE Find(categories, IsExpert)
      playerBet == playerStats.averageBet
      Brackets(c) == WeiLE(c.minEntryFee, playerBet) /\ WeiLE(playerBet, c.maxEntryFee)
  IN IF tier # Undefined /\ WeiLT(playerBet, tier.minEntryFee)
       THEN Find(categories, Brackets)
       ELSE tier

\* A validateTournamentParams that returns at the first violated constraint
ValidateTournamentParams_FirstOnly(categoryId, entryFee, maxPlayers, duration) ==
  LET category == GetCategoryById(categoryId) IN
  IF category = Undefined
    THEN [isValid |-> FALSE, errors |-> <<"Invalid category">>]
  ELSE IF WeiLT(entryFee, category.minEntryFee)
          \/ WeiLT(category.maxEntryFee, entryFee)
    THEN [isValid |-> FALSE, errors |-> <<"Entry fee">>]
  ELSE IF maxPlayers < category.minPlayers \/ maxPlayers > category.maxPlayers
    THEN [isValid |-> FALSE, errors |-> <<"Number of players">>]
  ELSE IF duration > category.duration
    THEN [isValid |-> FALSE, errors |-> <<"Duration">>]
  ELSE [isValid |-> TRUE, errors |-> <<>>]

\* TournamentRulesService.validateTournamentParams; an error message is
\* modelled by its leading words
ValidateTournamentParams(categoryId, entryFee, maxPlayers, duration) ==
  LET category == GetCategoryById(categoryId) IN
  IF category = Undefined
    THEN [isValid |-> FALSE, errors |-> <<"Invalid category">>]
    ELSE LET e1 == IF WeiLT(entryFee, category.minEntryFee)
                      \/ WeiLT(category.maxEntryFee, entryFee)
                     THEN <<"Entry fee">> ELSE <<>>
             e2 == IF maxPlayers < category.minPlayers
                      \/ maxPlayers > category.maxPlayers
                     THEN Append(e1, "Number of players") ELSE e1
             errors == IF duration > category.duration
                         THEN Append(e2, "Duration") ELSE e2
         IN [isValid |-> Len(errors) = 0, errors |-> errors]

CategoryIds == {"beginner", "intermediate", "expert", "vip"}
Pools == (0 - MaxNegPool)..MaxPool
PlayerCounts == 0..MaxPlayerCount

\* the player statistics getRecommendedCategory is asked about
StatsInputs ==
  [totalGames : {5, 9, 10, 49, 50, 100},
   winRate : {20, 29, 30, 49, 50, 70},
   averageBet : {Wei(0, 1), Wei(0, 500), Wei(1000000, 0), Wei(5000000, 0),
                 Wei(10000000, 0), Wei(100000000, 0), Wei(1000000000, 0),
                 Wei(2000000000, 0)}]

\* the arguments validateTournamentParams is called with: fees, player
\* counts and durations on both sides of every category's limits
ParamsInputs ==
  [categoryId : CategoryIds,
   entryFee : {Wei(0, 1), Wei(1000000, 0), Wei(10000000, 0), Wei(10000000, 1),
               Wei(100000000, 0), Wei(1000000000, 0), Wei(1000000000, 1)},
   maxPlayers : {1, 2, 4, 8, 10, 11, 20, 21, 50, 51},
   duration : {-1, 24, 25, 48, 49, 72, 73}]

\* The calls made to the rules engine: the arguments of one call each
RulesCalls ==
  [op : {"calculatePrizeDistribution"}, categoryId : CategoryIds,
   totalPrizePool : Pools, playerCount : PlayerCounts]
  \cup [op : {"getRecommendedCategory"}, playerStats : StatsInputs]
  \cup [op : {"validateTournamentParams"}, params : ParamsInputs]

\* calculatePrizeDistribution runs on the pending call and returns
PrizeDistributionCall ==
  /\ rulesCall.state = "called"
  /\ rulesCall.call.op = "calculatePrizeDistribution"
  /\ LET c == rulesCall.call IN
       rulesCall' =
         [rulesCall EXCEPT
            !.state = "returned",
            !.threw = GetCategoryById(c.categoryId) = Undefined,
            !.result = IF GetCategoryById(c.categoryId) = Undefined
                         THEN <<>>
                         ELSE CalculatePrizeDistribution(
                                c.categoryId, c.totalPrizePool, c.playerCount)]
  /\ UNCHANGED notRules

\* getRecommendedCategory runs on the pending call and returns
RecommendedCategoryCall ==
  /\ rulesCall.state = "called"
  /\ rulesCall.call.op = "getRecommendedCategory"
  /\ LET c == GetRecommendedCategory(rulesCall.call.playerStats) IN
       rulesCall' =
         [rulesCall EXCEPT
            !.state = "returned",
            !.result = IF c = Undefined THEN "undefined" ELSE c.id]
  /\ UNCHANGED notRules

\* validateTournamentParams runs on the pending call and returns
ValidateParamsCall ==
  /\ rulesCall.state = "called"
  /\ rulesCall.call.op = "validateTournamentParams"
  /\ LET c == rulesCall.call.params IN
       rulesCall' =
         [rulesCall EXCEPT
            !.state = "returned",
            !.result = ValidateTournamentParams(c.categoryId, c.entryFee,
                                                c.maxPlayers, c.duration)]
  /\ UNCHANGED notRules

RulesNext ==
  \/ PrizeDistributionCall
  \/ RecommendedCategoryCall
  \/ ValidateParamsCall

\* The rules engine holds no state between calls: a behaviour is one call
RulesCalled ==
  \E c \in RulesCalls :
    rulesCall = [state |-> "called", call |-> c, threw |-> FALSE, result |-> <<>>]

----------------------------------------------------------------------------
(* Users and achievements: UserService (first variant), AchievementService *)

\* UserService.initializeUserProfile: the stats of a new profile
InitialStats ==
  [level |-> 1, experience |-> 0, totalGames |-> 0, wins |-> 0, losses |-> 0,
   draws |-> 0, totalBetAmount |-> 0, highestWin |-> Wei(0, 0), bestStreak |-> 0]

\* { ...profile.stats, ...update }
Merge(stats, update) ==
  [k \in DOMAIN stats |-> IF k \in DOMAIN update THEN update[k] ELSE stats[k]]

\* UserService.calculateLevel
CalculateLevel(experience) == (experience \div 1000) + 1

\* UserService.updateStats on the pair st = [users, notifications]
UpdateStats(st, address, update) ==
  IF address \notin DOMAIN st.users THEN st
  ELSE LET oldLevel == st.users[address].level
           merged == Merge(st.users[address], update)
           newLevel == CalculateLevel(merged.experience)
       IN IF newLevel > oldLevel
            THEN [users |-> MapSet(st.users, address,
                                   [merged EXCEPT !.level = newLevel]),
                  notifications |->
                    Append(st.notifications,
                           [type |-> "level_up", address |-> address,
                            name |-> "level"])]
            ELSE [users |-> MapSet(st.users, address, merged),
                  notifications |-> st.notifications]

\* AchievementService.initializeAchievements
achievements ==
  << [id |-> "first_win", type |-> "first_win", points |-> 100],
     [id |-> "win_streak_5", type |-> "win_streak", streak |-> 5,
      points |-> 250],
     [id |-> "high_roller", type |-> "high_roller",
      amount |-> Wei(1000000000, 0), points |-> 500] >>

\* AchievementService.hasUnlockedAchievement: the value its promise resolves to
HasUnlockedAchievement(stats, achievement) ==
  CASE achievement.type = "first_win" -> stats.wins > 0
    [] achievement.type = "win_streak" -> stats.bestStreak >= achievement.streak
    [] achievement.type = "high_roller" ->
         WeiLE(achievement.amount, stats.highestWin)
    [] OTHER -> FALSE

\* hasUnlockedAchievement is async and its callers do not await it: the
\* filter callbacks test the Promise object, which is truthy whatever it
\* resolves to.
PromiseTruthy(resolved) == resolved \in BOOLEAN

\* A getPlayerAchievements that awaits hasUnlockedAchievement
GetPlayerAchievements_Awaited(address) ==
  IF address \notin DOMAIN users THEN <<>>
  ELSE LET Unlocked(a) == HasUnlockedAchievement(users[address], a)
       IN Filter(achievements, Unlocked)

\* AchievementService.getPlayerAchievements
GetPlayerAchievements(address) ==
  IF address \notin DOMAIN users THEN <<>>
  ELSE LET Unlocked(a) == PromiseTruthy(HasUnlockedAchievement(users[address], a))
       IN Filter(achievements, Unlocked)

\* AchievementService.awardAchievement on the pair st = [users, notifications]
AwardAchievement(st, address, achievement) ==
  IF address \notin DOMAIN st.users THEN st
  ELSE LET upd == UpdateStats(st, address,
                    [experience |->
                       st.users[address].experience + achievement.points])
       IN [users |-> upd.users,
           notifications |->
             Append(upd.notifications,
                    [type |-> "achievement_unlocked", address |-> address,
                     name |-> achievement.id])]

\* for (const achievement of newAchievements) await this.awardAchievement(...)
RECURSIVE AwardAll(_, _, _)
AwardAll(st, address, news) ==
  IF news = <<>> THEN st
  ELSE AwardAll(AwardAchievement(st, address, Head(news)), address, Tail(news))

\* AchievementService.checkAchievements: the achievements it finds new
NewAchievements(address) ==
  LET unlockedAchievements == GetPlayerAchievements(address)
      IsNew(achievement) ==
        /\ ~\E i \in 1..Len(unlockedAchievements) :
              unlockedAchievements[i].id = achievement.id
        /\ PromiseTruthy(HasUnlockedAchievement(users[address], achievement))
  IN Filter(achievements, IsNew)

\* UserService.createProfile
CreateProfile(address) ==
  /\ users' = MapSet(users, address, InitialStats)
  /\ achPhase' = [achPhase EXCEPT
                    ![address] = IF @ = "satisfied" THEN "locked" ELSE @]
  /\ gameEvents' = [gameEvents EXCEPT ![address] = 0]
  /\ UNCHANGED <<notifications, notAchievement>>

\* getGameOutcomeString of ContractService: outcome number -> stats key; any
\* other number throws
OutcomeKey(outcome) ==
  CASE outcome = 0 -> "wins" [] outcome = 1 -> "losses" [] outcome = 2 -> "draws"

\* The GamePlayed listener of ContractService.setupEventListeners:
\* userService.updateStats(player, {totalGames: 1, [key]: 1, totalBetAmount}).
\* Its notifyGameResult message is not an unlock or level-up event and is not
\* recorded in notifications.
GamePlayed(player, betAmount, outcome) ==
  LET update == [k \in {"totalGames", OutcomeKey(outcome), "totalBetAmount"} |->
                   IF k = "totalBetAmount" THEN betAmount ELSE 1]
      st == UpdateStats([users |-> users, notifications |-> notifications],
                        player, update)
      firstWin == /\ player \in DOMAIN users
                  /\ users[player].wins = 0
                  /\ st.users[player].wins > 0
  IN /\ gameEvents[player] < MaxEvents
     /\ users' = st.users
     /\ notifications' = st.notifications
     /\ achPhase' = [achPhase EXCEPT
                       ![player] = IF firstWin /\ @ = "locked"
                                     THEN "satisfied" ELSE @]
     /\ gameEvents' = [gameEvents EXCEPT
                         ![player] = IF player \in DOMAIN users THEN @ + 1 ELSE @]
     /\ UNCHANGED notAchievement

\* AchievementService.checkAchievements
CheckAchievements(address) ==
  /\ IF address \notin DOMAIN users
       THEN UNCHANGED <<users, notifications, achPhase, gameEvents>>
       ELSE LET st == AwardAll([users |-> users, notifications |-> notifications],
                               address, NewAchievements(address))
            IN /\ users' = st.users
               /\ notifications' = st.notifications
               /\ achPhase' = [achPhase EXCEPT
                                 ![address] = IF @ = "satisfied"
                                                THEN "checked" ELSE @]
               /\ UNCHANGED gameEvents
  /\ UNCHANGED notAchievement

\* UserService.updateStats called with a partial update by another service
StatsUpdated(address, update) ==
  LET st == UpdateStats([users |-> users, notifications |-> notifications],
                        address, update)
  IN /\ users' = st.users
     /\ notifications' = st.notifications
     /\ achPhase' = [achPhase EXCEPT
                       ![address] = IF @ = "satisfied" /\ address \in DOMAIN users
                                       /\ st.users[address].wins = 0
                                     THEN "locked" ELSE @]
     /\ UNCHANGED <<gameEvents, notAchievement>>

----------------------------------------------------------------------------
(* Tournament history: TournamentHistoryService *)

\* What the Gateway holds when recordTournament asks: the tournament (null
\* when it is unknown or the call failed), its roster and its winners
HistoryTournaments == {Null} \cup {[startTime |-> t] : t \in 1..2}
HistoryRosters == {<<>>, <<"a1">>, <<"a1", "a2">>}
HistoryWinners == {<<>>, <<[address |-> "a1", prize |-> 1, rank |-> 1]>>}

\* What tournamentContract.getRegisteredPlayers / getTournamentWinners do:
\* return a list (ok) or throw
ContractAnswers(values) ==
  {[ok |-> TRUE, value |-> v] : v \in values} \cup {[ok |-> FALSE, value |-> <<>>]}

\* ContractService.getRegisteredPlayers / getTournamentWinners: a thrown error
\* is logged and an empty list returned
SwallowError(answer) == IF answer.ok THEN answer.value ELSE <<>>

\* the TournamentHistory record built by recordTournament
Snapshot(tournamentId, tournament, players, winners) ==
  [tournamentId |-> tournamentId, startTime |-> tournament.startTime,
   players |-> players, winners |-> winners]

\* players.forEach(...) of recordTournament (unnamed variant): the id is
\* added to the list of every rostered player that does not hold it yet
IndexPlayers(index, players, tournamentId) ==
  [p \in DOMAIN index \cup {players[i] : i \in 1..Len(players)} |->
     LET playerTournaments == IF p \in DOMAIN index THEN index[p] ELSE <<>>
     IN IF Includes(players, p) /\ ~Includes(playerTournaments, tournamentId)
          THEN Append(playerTournaments, tournamentId)
          ELSE playerTournaments]

\* the observer of successful recordTournament calls
Recorded(tournamentId, snapshot) ==
  [recorded EXCEPT ![tournamentId] = [n |-> @.n + 1, last |-> snapshot]]

\* the observer of a history operation: failed says that a call to the chain
\* contracts threw, threw that the operation itself threw
RecordOp(op, id, failed, threw) ==
  [op |-> op, id |-> id, failed |-> failed, threw |-> threw]

\* TournamentHistoryService.recordTournament (unnamed variant): history is
\* kept by tournament id, with an index of ids per player.  tournament is the
\* answer of ContractService.getTournament (null also when the chain call
\* threw), playersAnswer and winnersAnswer those of the chain contract.
RecordTournament(tournamentId, tournament, playersAnswer, winnersAnswer) ==
  /\ recorded[tournamentId].n < MaxRecords
  /\ IF tournament = Null
       THEN /\ lastRecord' = RecordOp("recordTournament", tournamentId, TRUE, TRUE)
            /\ UNCHANGED <<tournamentHistory, playerHistory, history, recorded,
                           sharedPlayers>>
       ELSE LET players == SwallowError(playersAnswer)
                winners == SwallowError(winnersAnswer)
                h == Snapshot(tournamentId, tournament, players, winners)
            IN /\ tournamentHistory' = MapSet(tournamentHistory, tournamentId, h)
               /\ sharedPlayers' = sharedPlayers \ {tournamentId}
               /\ playerHistory' = IndexPlayers(playerHistory, players, tournamentId)
               /\ recorded' = Recorded(tournamentId, h)
               /\ lastRecord' = RecordOp("recordTournament", tournamentId,
                                         ~playersAnswer.ok \/ ~winnersAnswer.ok,
                                         FALSE)
               /\ UNCHANGED history
  /\ UNCHANGED notHistory

\* TournamentHistoryService.addTournamentHistory(tournament) (unnamed
\* variant).  live: the argument is the Tournament object the registry holds
\* (what TournamentService.getTournament returns); the snapshot then holds
\* that object's players array itself, not a copy.
AddTournamentHistory(tournamentId, startTime, players, winners, live) ==
  /\ recorded[tournamentId].n < MaxRecords
  /\ live => /\ tournamentId \in DOMAIN tournaments
             /\ players = tournaments[tournamentId].players
             /\ winners = tournaments[tournamentId].winners
  /\ LET h == Snapshot(tournamentId, [startTime |-> startTime], players, winners)
     IN /\ tournamentHistory' = MapSet(tournamentHistory, tournamentId, h)
        /\ sharedPlayers' = IF live THEN sharedPlayers \cup {tournamentId}
                                    ELSE sharedPlayers \ {tournamentId}
        /\ playerHistory' = IndexPlayers(playerHistory, players, tournamentId)
        /\ recorded' = Recorded(tournamentId, h)
        /\ lastRecord' = RecordOp("addTournamentHistory", tournamentId, FALSE, FALSE)
        /\ UNCHANGED history
  /\ UNCHANGED notHistory

\* for (const player of players) { playerHistory.push(history); ... } of
\* recordTournament (named variant)
PushToPlayers(store, players, h) ==
  [p \in DOMAIN store \cup {players[i] : i \in 1..Len(players)} |->
     LET playerHistoryOfP == IF p \in DOMAIN store THEN store[p] ELSE <<>>
     IN IF Includes(players, p) THEN Append(playerHistoryOfP, h)
                                ELSE playerHistoryOfP]

\* TournamentHistoryService.recordTournament (named variant): history is kept
\* as a list of snapshots per player.  tournament = Null: getTournamentInfo
\* threw; a throwing getRegisteredPlayers or getTournamentWinners is rethrown
\* as well.
RecordTournamentByPlayer(tournamentId, tournament, playersAnswer, winnersAnswer) ==
  /\ recorded[tournamentId].n < MaxRecords
  /\ IF tournament = Null \/ ~playersAnswer.ok \/ ~winnersAnswer.ok
       THEN /\ lastRecord' = RecordOp("recordTournament", tournamentId, TRUE, TRUE)
            /\ UNCHANGED <<tournamentHistory, playerHistory, history, recorded,
                           sharedPlayers>>
       ELSE LET h == Snapshot(tournamentId, tournament, playersAnswer.value,
                              winnersAnswer.value)
            IN /\ history' = PushToPlayers(history, playersAnswer.value, h)
               /\ recorded' = Recorded(tournamentId, h)
               /\ lastRecord' = RecordOp("recordTournament", tournamentId,
                                         FALSE, FALSE)
               /\ UNCHANGED <<tournamentHistory, playerHistory, sharedPlayers>>
  /\ UNCHANGED notHistory

\* Array.sort by startTime descending (stable: equal startTimes keep their
\* order), by insertion
RECURSIVE InsertByStart(_, _)
InsertByStart(sorted, h) ==
  IF sorted = <<>> THEN <<h>>
  ELSE IF Head(sorted).startTime >= h.startTime
    THEN <<Head(sorted)>> \o InsertByStart(Tail(sorted), h)
    ELSE <<h>> \o sorted

RECURSIVE SortByStartDesc(_)
SortByStartDesc(s) ==
  IF s = <<>> THEN <<>>
  ELSE InsertByStart(SortByStartDesc(SubSeq(s, 1, Len(s) - 1)), s[Len(s)])

\* this.tournamentHistory.get(id) as a reader sees it: a snapshot that holds
\* the registry's players array shows that array's current contents
SnapshotOf(id) ==
  IF id \in sharedPlayers
    THEN [tournamentHistory[id] EXCEPT !.players = tournaments[id].players]
    ELSE tournamentHistory[id]

\* TournamentHistoryService.getPlayerHistory (unnamed variant)
GetPlayerHistory(playerAddress) ==
  LET tournamentIds == IF playerAddress \in DOMAIN playerHistory
                         THEN playerHistory[playerAddress] ELSE <<>>
      Known(id) == id \in DOMAIN tournamentHistory
      known == Filter(tournamentIds, Known)
  IN SortByStartDesc([i \in 1..Len(known) |-> SnapshotOf(known[i])])

\* TournamentHistoryService.getPlayerHistory (named variant)
GetPlayerHistoryByPlayer(address) ==
  IF address \in DOMAIN history THEN history[address] ELSE <<>>

\* The chain pays prizes to registered players only: the winners a contract
\* reports are on the roster it reports
WinnersRegistered(players, winners) ==
  \A i \in 1..Len(winners) : Includes(players, winners[i].address)

\* the answers of the two chain calls of one recordTournament
RosterAnswers ==
  {pw \in ContractAnswers(HistoryRosters) \X ContractAnswers(HistoryWinners) :
     (pw[1].ok /\ pw[2].ok) => WinnersRegistered(pw[1].value, pw[2].value)}

\* the tournaments handed to addTournamentHistory: <<players, winners>>
HistoryArguments ==
  {pw \in HistoryRosters \X HistoryWinners : WinnersRegistered(pw[1], pw[2])}

HistoryNext ==
  \/ \E id \in TournamentIds, t \in HistoryTournaments, pw \in RosterAnswers :
       RecordTournament(id, t, pw[1], pw[2])
  \/ \E id \in TournamentIds, t \in 1..2, pw \in HistoryArguments :
       AddTournamentHistory(id, t, pw[1], pw[2], FALSE)

HistoryByPlayerNext ==
  \E id \in TournamentIds, t \in HistoryTournaments, pw \in RosterAnswers :
    RecordTournamentByPlayer(id, t, pw[1], pw[2])

----------------------------------------------------------------------------
(* Player statistics and leaderboard: PlayerStatsService *)

Max(a, b) == IF a >= b THEN a ELSE b
Min(a, b) == IF a <= b THEN a ELSE b

\* what gameContract.getGameOutcome reports through getGameOutcomeString
Outcomes == {"win", "lose", "draw"}

\* a number kept exact as the fraction num / den, den > 0
Ratio(num, den) == [num |-> num, den |-> den]
RatioEq(a, b) == a.num * b.den = b.num * a.den
RatioLT(a, b) == a.num * b.den < b.num * a.den

\* the loop body of calculateStats: one game added to the running counters
AddGame(c, outcome) ==
  CASE outcome = "win" ->
         [c EXCEPT !.totalGames = @ + 1, !.wins = @ + 1,
                   !.currentStreak = Max(0, @) + 1,
                   !.bestStreak = Max(@, Max(0, c.currentStreak) + 1)]
    [] outcome = "lose" ->
         [c EXCEPT !.totalGames = @ + 1, !.losses = @ + 1,
                   !.currentStreak = Min(0, @) - 1]
    [] OTHER ->
         [c EXCEPT !.totalGames = @ + 1, !.draws = @ + 1, !.currentStreak = 0]

RECURSIVE Replay(_, _)
Replay(c, outcomes) ==
  IF outcomes = <<>> THEN c ELSE Replay(AddGame(c, Head(outcomes)), Tail(outcomes))

\* PlayerStatsService.calculateStats: the stats of the games' outcomes (bet
\* and win amounts are not read from the chain and stay 0)
CalculateStats(address, outcomes) ==
  LET c == Replay([totalGames |-> 0, wins |-> 0, losses |-> 0, draws |-> 0,
                   currentStreak |-> 0, bestStreak |-> 0], outcomes)
  IN [address |-> address, totalGames |-> c.totalGames, wins |-> c.wins,
      losses |-> c.losses, draws |-> c.draws, totalWinAmount |-> 0,
      winRate |-> IF c.totalGames > 0 THEN Ratio(c.wins, c.totalGames)
                                      ELSE Ratio(0, 1),
      currentStreak |-> c.currentStreak, bestStreak |-> c.bestStreak]

\* this.stats.has(address)
HasStats(m, address) == \E i \in 1..Len(m) : m[i].address = address

\* this.stats.get(address)
StatsOf(m, address) == m[CHOOSE i \in 1..Len(m) : m[i].address = address]

\* this.stats.set(address, value): a new key goes last, a known key keeps
\* its place
StatsSet(m, address, value) ==
  IF HasStats(m, address)
    THEN [i \in 1..Len(m) |-> IF m[i].address = address THEN value ELSE m[i]]
    ELSE Append(m, value)

\* getPlayerStats up to its return: the stats map after the lazy
\* initializePlayerStats
Initialized(address) ==
  IF HasStats(statsMap, address) THEN statsMap
  ELSE StatsSet(statsMap, address, CalculateStats(address, games[address]))

\* A game is played on the chain (gameContract's history grows)
PlayGame(address, outcome) ==
  /\ Len(games[address]) < MaxGames
  /\ games' = [games EXCEPT ![address] = Append(@, outcome)]
  /\ UNCHANGED <<statsMap, notStats>>

\* PlayerStatsService.getPlayerStats.  gatewayOk: whether getGameHistory and
\* getGameOutcome answered (a thrown error leaves the map as it is)
GetPlayerStats(address, gatewayOk) ==
  /\ statsMap' = IF gatewayOk THEN Initialized(address) ELSE statsMap
  /\ UNCHANGED <<games, notStats>>

\* PlayerStatsService.updateStats
PlayerStatsUpdate(address, update) ==
  /\ statsMap' = StatsSet(Initialized(address), address,
                       Merge(StatsOf(Initialized(address), address), update))
  /\ UNCHANGED <<games, notStats>>

\* PlayerStatsService.calculateRank, in tenths (totalGames / 10 is not
\* rounded): 10 * floor(winRate * 100) + min(totalGames, 100)
CalculateRank(stat) ==
  10 * ((100 * stat.winRate.num) \div stat.winRate.den) + Min(stat.totalGames, 100)

\* the comparator of getLeaderboard's sort: a negative result puts a first
Compare(a, b) ==
  IF a.rank # b.rank THEN a.rank - b.rank
  ELSE IF ~RatioEq(a.winRate, b.winRate)
    THEN (IF RatioLT(a.winRate, b.winRate) THEN 1 ELSE -1)
    ELSE b.totalWon - a.totalWon

\* Array.sort with Compare (stable), by insertion
RECURSIVE InsertEntry(_, _)
InsertEntry(sorted, e) ==
  IF sorted = <<>> THEN <<e>>
  ELSE IF Compare(Head(sorted), e) <= 0
    THEN <<Head(sorted)>> \o InsertEntry(Tail(sorted), e)
    ELSE <<e>> \o sorted

RECURSIVE SortEntries(_)
SortEntries(s) ==
  IF s = <<>> THEN <<>>
  ELSE InsertEntry(SortEntries(SubSeq(s, 1, Len(s) - 1)), s[Len(s)])

\* Array.slice(0, limit) for limit >= 0
Slice(s, limit) == SubSeq(s, 1, Min(limit, Len(s)))

\* PlayerStatsService.getLeaderboard over the stats map m
LeaderboardOf(m, limit) ==
  Slice(SortEntries([i \in 1..Len(m) |->
                       [address |-> m[i].address, rank |-> CalculateRank(m[i]),
                        winRate |-> m[i].winRate,
                        totalWon |-> m[i].totalWinAmount]]),
        limit)

GetLeaderboard(limit) == LeaderboardOf(statsMap, limit)

\* the updates handed to updateStats
StatsUpdates == {[totalWinAmount |-> 1], [totalWinAmount |-> 2], [wins |-> 1]}

StatsNext ==
  \/ \E a \in Addresses, o \in Outcomes : PlayGame(a, o)
  \/ \E a \in Addresses, ok \in BOOLEAN : GetPlayerStats(a, ok)
  \/ \E a \in Addresses, u \in StatsUpdates : PlayerStatsUpdate(a, u)

StatsInit ==
  /\ games = [a \in Addresses |-> <<>>]
  /\ statsMap = <<>>

----------------------------------------------------------------------------
(* Rules store: TournamentRulesService (setRules / updateRules / deleteRules) *)

\* The TournamentRules handed to setRules (startTime and endTime left out):
\* every field on both sides of its limit
RuleSets ==
  [minPlayers : {1, 2}, maxPlayers : {1, 2, 3}, entryFee : {-1, 1},
   prizePool : {0, 1, 2}, minBet : {-1, 1}, maxBet : {0, 1, 2},
   timeLimit : {-1, 0, 1}, maxRounds : {0, 1}]

\* the Partial<TournamentRules> handed to updateRules
RuleUpdates ==
  {[timeLimit |-> 0], [timeLimit |-> -1], [maxBet |-> 0], [maxBet |-> 2],
   [maxRounds |-> 0], [maxPlayers |-> 1], [maxPlayers |-> 3]}

\* TournamentRulesService.validateRules (first variant)
ValidateRules(r) ==
  /\ ~(r.minPlayers < 2 \/ r.maxPlayers < r.minPlayers)
  /\ ~(r.entryFee < 0 \/ r.prizePool < r.entryFee)
  /\ ~(r.minBet < 0 \/ r.maxBet < r.minBet)
  /\ ~(r.timeLimit < 0 \/ r.maxRounds < 1)

\* TournamentRulesService.setRules (first variant): invalid rules throw
SetRules(tournamentId, r) ==
  /\ rules' = IF ValidateRules(r) THEN MapSet(rules, tournamentId, r) ELSE rules
  /\ UNCHANGED notStore

\* TournamentRulesService.updateRules (first variant): an unknown id and an
\* invalid merge throw
UpdateRules(tournamentId, updates) ==
  /\ rules' = IF tournamentId \in DOMAIN rules
                 /\ ValidateRules(Merge(rules[tournamentId], updates))
                THEN MapSet(rules, tournamentId, Merge(rules[tournamentId], updates))
                ELSE rules
  /\ UNCHANGED notStore

\* TournamentRulesService.deleteRules (both variants)
DeleteRules(tournamentId) ==
  /\ rules' = [x \in DOMAIN rules \ {tournamentId} |-> rules[x]]
  /\ UNCHANGED notStore

\* TournamentRulesService.validateRules (second variant)
ValidateRules2(r) ==
  /\ ~(r.minPlayers = 0 \/ r.maxPlayers = 0)
  /\ ~(r.minPlayers < 2 \/ r.maxPlayers < r.minPlayers)
  /\ ~(r.entryFee < 0)
  /\ ~(r.prizePool < 0)

\* TournamentRulesService.setRules (second variant): no validation
SetRules2(tournamentId, r) ==
  /\ rules' = MapSet(rules, tournamentId, r)
  /\ UNCHANGED notStore

\* TournamentRulesService.updateRules (second variant): an unknown id and an
\* invalid merge return null
UpdateRules2(tournamentId, updates) ==
  /\ rules' = IF tournamentId \in DOMAIN rules
                 /\ ValidateRules2(Merge(rules[tournamentId], updates))
                THEN MapSet(rules, tournamentId, Merge(rules[tournamentId], updates))
                ELSE rules
  /\ UNCHANGED notStore

StoreNext ==
  \/ \E id \in TournamentIds, r \in RuleSets : SetRules(id, r)
  \/ \E id \in TournamentIds, u \in RuleUpdates : UpdateRules(id, u)
  \/ \E id \in TournamentIds : DeleteRules(id)

\* the second variant, for one tournament id
Store2Next ==
  \/ \E r \in RuleSets : SetRules2("t1", r)
  \/ \E u \in RuleUpdates : UpdateRules2("t1", u)
  \/ DeleteRules("t1")

StoreInit == rules = EmptyMap

----------------------------------------------------------------------------
(* Tournament trends: TournamentHistoryService.getTournamentTrends *)

\* A Date: the whole days since 1970-01-01T00:00Z and the milliseconds into
\* that day (its time value is day * 86400000 + ms)
DateOf(day, ms) == [day |-> day, ms |-> ms]

\* a <= b on Dates, as >= and <= compare their time values
DateLE(a, b) == a.day < b.day \/ (a.day = b.day /\ a.ms <= b.ms)

\* the proleptic Gregorian calendar date (UTC) of a day number, as
\* Date.prototype.toISOString computes it
CivilFromDays(days) ==
  LET z == days + 719468
      era == z \div 146097
      doe == z - era * 146097
      yoe == (doe - doe \div 1460 + doe \div 36524 - doe \div 146096) \div 365
      doy == doe - (365 * yoe + yoe \div 4 - yoe \div 100)
      mp == (5 * doy + 2) \div 153
      d == doy - (153 * mp + 2) \div 5 + 1
      m == IF mp < 10 THEN mp + 3 ELSE mp - 9
      y == yoe + era * 400 + (IF m <= 2 THEN 1 ELSE 0)
  IN [year |-> y, month |-> m, day |-> d]

\* a string is the sequence of its UTF-16 code units; the decimal digits of
\* n, zero-padded to width
Digits(n, width) ==
  [i \in 1..width |-> 48 + ((n \div (10 ^ (width - i))) % 10)]

\* startTime.toISOString().split('T')[0]: YYYY-MM-DD for the years 0..9999,
\* and the expanded form with a sign and six digits for the others
ToISODate(date) ==
  LET c == CivilFromDays(date.day)
      year == IF c.year \in 0..9999
                THEN Digits(c.year, 4)
                ELSE <<IF c.year < 0 THEN 45 ELSE 43>>
                       \o Digits(IF c.year < 0 THEN -c.year ELSE c.year, 6)
  IN year \o <<45>> \o Digits(c.month, 2) \o <<45>> \o Digits(c.day, 2)

\* the order of Array.prototype.sort() without a comparator: strings by
\* their code units
RECURSIVE StringLT(_, _)
StringLT(a, b) ==
  IF b = <<>> THEN FALSE
  ELSE IF a = <<>> THEN TRUE
  ELSE IF Head(a) # Head(b) THEN Head(a) < Head(b)
  ELSE StringLT(Tail(a), Tail(b))

\* Array.from(dailyStats.keys()).sort()
RECURSIVE SortStrings(_)
SortStrings(keys) ==
  IF keys = {} THEN <<>>
  ELSE LET least == CHOOSE k \in keys : \A o \in keys \ {k} : StringLT(k, o)
       IN <<least>> \o SortStrings(keys \ {least})

\* the dailyTournaments series of getTournamentTrends over the store th
DailyTournaments(th, startDate, endDate) ==
  LET histories == {id \in DOMAIN th : /\ DateLE(startDate, th[id].startTime)
                                        /\ DateLE(th[id].startTime, endDate)}
      DateKey(id) == ToISODate(th[id].startTime)
      dates == SortStrings({DateKey(id) : id \in histories})
  IN [i \in 1..Len(dates) |->
        [date |-> dates[i],
         count |-> Cardinality({id \in histories : DateKey(id) = dates[i]})]]

\* TournamentHistoryService.getTournamentTrends(startDate, endDate); of the
\* three series it returns, dailyTournaments is kept
GetTournamentTrends(startDate, endDate) ==
  /\ trends' = [called |-> TRUE, startDate |-> startDate, endDate |-> endDate,
                dailyTournaments |->
                  DailyTournaments(tournamentHistory, startDate, endDate)]
  /\ UNCHANGED notTrends

\* the instants of the scenarios: the first and the last millisecond of
\* 2024-10-04, the next day, and 10000-01-01
TrendInstants ==
  {DateOf(20000, 0), DateOf(20000, 86399999), DateOf(20001, 0),
   DateOf(2932897, 0)}

\* tournaments as ContractService.getTournament returns them
TrendTournaments == {[startTime |-> t] : t \in TrendInstants}

\* rosters of the recorded tournaments
TrendRosters ==
  {pw \in RosterAnswers : pw[1].ok /\ pw[2].ok /\ pw[1].value = <<"a1">>
                                /\ pw[2].value = <<>>}

\* the ranges asked for: from the start of either day to the end of the
\* first day or to 10000-01-01
TrendStarts == {DateOf(20000, 0), DateOf(20001, 0)}
TrendEnds == {DateOf(20000, 86399999), DateOf(2932897, 0)}

TrendsNext ==
  \/ \E id \in TournamentIds, t \in TrendTournaments, pw \in TrendRosters :
       RecordTournament(id, t, pw[1], pw[2])
  \/ \E s \in TrendStarts, e \in TrendEnds : GetTournamentTrends(s, e)

TrendsInit ==
  trends = [called |-> FALSE, startDate |-> DateOf(0, 0),
            endDate |-> DateOf(0, 0), dailyTournaments |-> <<>>]

----------------------------------------------------------------------------
(* Interleaved joinTournament calls: TournamentService (first variant)      *)
(* One tournament id; Tournament objects are held by reference, so the      *)
(* registry maps the id to a reference into the objects created so far.     *)

\* no object
NoRef == 0

\* a Tournament object comes into being with the given players array
NewObject(players) == Append(objects, players)

\* createTournament: the new Tournament has players: [] and is stored
\* under its id (the id is new, so no joinTournament for it has begun)
TournamentCreated ==
  /\ registryRef = NoRef
  /\ \A p \in Addresses : joinPc[p] = "idle"
  /\ objects' = NewObject(<<>>)
  /\ registryRef' = Len(objects')
  /\ UNCHANGED <<joinPc, joinHeld, chainRoster, notRace>>

\* joinTournament(id, p, fee) up to its first await that waits on the
\* Gateway: getTournament finds the tournament in the registry and the call
\* goes on to await contractService.joinTournament, or it does not and the
\* call awaits contractService.getTournament.  An address whose call has
\* returned may call again.
JoinBegins(p) ==
  /\ joinPc[p] \in {"idle", "notFound", "rejected", "done"}
  /\ Count(chainRoster, p) < MaxJoins
  /\ IF registryRef # NoRef
       THEN /\ joinHeld' = [joinHeld EXCEPT ![p] = registryRef]
            /\ joinPc' = [joinPc EXCEPT ![p] = "joining"]
       ELSE /\ joinPc' = [joinPc EXCEPT ![p] = "reading"]
            /\ UNCHANGED joinHeld
  /\ UNCHANGED <<objects, registryRef, chainRoster, notRace>>

\* contractService.getTournament answers the call of p: null makes
\* joinTournament throw 'Tournament not found' ("notFound"); a record is a new Tournament
\* object with the players the contract has registered, which getTournament
\* stores under the id and returns
ReadReturns(p, found) ==
  /\ joinPc[p] = "reading"
  /\ IF found
       THEN /\ objects' = NewObject(chainRoster)
            /\ registryRef' = Len(objects')
            /\ joinHeld' = [joinHeld EXCEPT ![p] = Len(objects')]
            /\ joinPc' = [joinPc EXCEPT ![p] = "joining"]
       ELSE /\ joinPc' = [joinPc EXCEPT ![p] = "notFound"]
            /\ UNCHANGED <<objects, registryRef, joinHeld>>
  /\ UNCHANGED <<chainRoster, notRace>>

\* contractService.joinTournament answers the call of p: the contract has
\* registered the player, the address is pushed to the players of the
\* Tournament the call holds, and that object is stored under the id; a
\* thrown error ends the call ("rejected")
JoinReturns(p, gatewayOk) ==
  /\ joinPc[p] = "joining"
  /\ IF gatewayOk
       THEN /\ objects' = [objects EXCEPT ![joinHeld[p]] = Append(@, p)]
            /\ registryRef' = joinHeld[p]
            /\ chainRoster' = Append(chainRoster, p)
            /\ joinPc' = [joinPc EXCEPT ![p] = "done"]
       ELSE /\ joinPc' = [joinPc EXCEPT ![p] = "rejected"]
            /\ UNCHANGED <<objects, registryRef, chainRoster>>
  /\ UNCHANGED <<joinHeld, notRace>>

\* the players list of the tournament in the registry
RegistryPlayers == IF registryRef = NoRef THEN <<>> ELSE objects[registryRef]

RaceNext ==
  \/ TournamentCreated
  \/ \E p \in Addresses : JoinBegins(p)
  \/ \E p \in Addresses, found \in BOOLEAN : ReadReturns(p, found)
  \/ \E p \in Addresses, ok \in BOOLEAN : JoinReturns(p, ok)

RaceInit ==
  /\ objects = <<>>
  /\ registryRef = NoRef
  /\ joinPc = [p \in Addresses |-> "idle"]
  /\ joinHeld = [p \in Addresses |-> NoRef]
  /\ chainRoster = <<>>

----------------------------------------------------------------------------
(* Interleaved PlayerStatsService.updateStats calls for one address *)

\* the address the calls are about
UpdatedAddress == "a1"

\* the two calls and their updates, which set different fields
Callers == {"first", "second"}
UpdateOf(c) == IF c = "first" THEN [totalWinAmount |-> 1] ELSE [bestStreak |-> 9]

\* updateStats(address, update) up to its first await that is not settled
\* yet: getPlayerStats finds the stats in the map and returns them, or it
\* does not and awaits the Gateway in initializePlayerStats
UpdateBegins(c) ==
  /\ updatePc[c] = "idle"
  /\ IF HasStats(statsMap, UpdatedAddress)
       THEN /\ currentStats' =
                 [currentStats EXCEPT ![c] = StatsOf(statsMap, UpdatedAddress)]
            /\ updatePc' = [updatePc EXCEPT ![c] = "merging"]
       ELSE /\ updatePc' = [updatePc EXCEPT ![c] = "initializing"]
            /\ UNCHANGED currentStats
  /\ UNCHANGED <<statsVars, notStatsCalls>>

\* the Gateway has answered initializePlayerStats of call c: the computed
\* stats are stored and getPlayerStats returns them; a thrown error ends the
\* call
InitializeReturns(c, gatewayOk) ==
  /\ updatePc[c] = "initializing"
  /\ IF gatewayOk
       THEN LET computed == CalculateStats(UpdatedAddress, games[UpdatedAddress])
            IN /\ statsMap' = StatsSet(statsMap, UpdatedAddress, computed)
               /\ currentStats' = [currentStats EXCEPT ![c] = computed]
               /\ updatePc' = [updatePc EXCEPT ![c] = "merging"]
       ELSE /\ updatePc' = [updatePc EXCEPT ![c] = "failed"]
            /\ UNCHANGED <<statsMap, currentStats>>
  /\ UNCHANGED <<games, notStatsCalls>>

\* updateStats after its await: this.stats.set(address, { ...currentStats,
\* ...update }), and the call returns
MergeStored(c) ==
  /\ updatePc[c] = "merging"
  /\ statsMap' = StatsSet(statsMap, UpdatedAddress,
                          Merge(currentStats[c], UpdateOf(c)))
  /\ updatePc' = [updatePc EXCEPT ![c] = "done"]
  /\ UNCHANGED <<games, currentStats, notStatsCalls>>

StatsCallsNext ==
  \/ \E o \in Outcomes : PlayGame(UpdatedAddress, o)
  \/ \E c \in Callers : UpdateBegins(c)
  \/ \E c \in Callers, ok \in BOOLEAN : InitializeReturns(c, ok)
  \/ \E c \in Callers : MergeStored(c)

StatsCallsInit ==
  /\ updatePc = [c \in Callers |-> "idle"]
  /\ currentStats = [c \in Callers |-> Null]

----------------------------------------------------------------------------
(* Scheduled status updates: TournamentService.scheduleTournament (third    *)
(* variant) and the timers of scheduleStatusUpdates                         *)

\* setTimeout takes a delay of 1 .. 2^31 - 1 ms; 2147483647 ms are 596 whole
\* hours and a fraction
TimeoutMaxHours == 596

\* a delay: whole hours and milliseconds
Delay(hours, ms) == [hours |-> hours, ms |-> ms]

\* the delay a timer set with setTimeout(callback, delay) runs after, for a
\* delay of whole hours: a delay below 1 ms or above 2^31 - 1 ms is set to
\* 1 ms
TimerDelay(hours) ==
  IF hours < 1 \/ hours > TimeoutMaxHours THEN Delay(0, 1) ELSE Delay(hours, 0)

\* timer a runs before timer b: the shorter delay first, and of two equal
\* delays the timer that was set first
RunsBefore(a, b) ==
  \/ a.delay.hours < b.delay.hours
  \/ a.delay.hours = b.delay.hours /\ a.delay.ms < b.delay.ms
  \/ a.delay = b.delay /\ a.seq < b.seq

\* the call is appended to the calls made to the Gateway
Issue(call, by) == Append(gatewayLog, [call |-> call, by |-> by])

\* scheduleTournament(name, entryFee, maxPlayers, startTime, duration) with
\* startTime - now = startDelay hours.  gatewayOk: createTournament returned
\* an id (a thrown error is rethrown and no timer is set)
ScheduleTournament(startDelay, duration, gatewayOk) ==
  /\ callbackPc["start"] = "unset"
  /\ schedule = Null
  /\ schedule' = [startDelay |-> startDelay, duration |-> duration,
                  created |-> gatewayOk]
  /\ IF gatewayOk
       THEN /\ timers' = {[callback |-> "start", seq |-> 1,
                           delay |-> TimerDelay(startDelay)],
                          [callback |-> "end", seq |-> 2,
                           delay |-> TimerDelay(startDelay + duration)]}
            /\ callbackPc' = [c \in {"start", "end"} |-> "pending"]
       ELSE UNCHANGED <<timers, callbackPc>>
  /\ UNCHANGED <<gatewayLog, notSched>>

\* the next timer runs its callback, which calls
\* contractService.updateTournamentStatus and awaits it
TimerFires(t) ==
  /\ t \in timers
  /\ \A o \in timers \ {t} : RunsBefore(t, o)
  /\ timers' = timers \ {t}
  /\ gatewayLog' = Issue("updateTournamentStatus", t.callback)
  /\ callbackPc' = [callbackPc EXCEPT ![t.callback] = "updating"]
  /\ UNCHANGED <<schedule, notSched>>

\* updateTournamentStatus answers the start callback, which ends
StartUpdateAnswers(gatewayOk) ==
  /\ callbackPc["start"] = "updating"
  /\ callbackPc' = [callbackPc EXCEPT
                      !["start"] = IF gatewayOk THEN "done" ELSE "failed"]
  /\ UNCHANGED <<schedule, timers, gatewayLog, notSched>>

\* updateTournamentStatus answers the end callback: it goes on to call
\* contractService.distributePrizes, or it ends with the thrown error
EndUpdateAnswers(gatewayOk) ==
  /\ callbackPc["end"] = "updating"
  /\ IF gatewayOk
       THEN /\ gatewayLog' = Issue("distributePrizes", "end")
            /\ callbackPc' = [callbackPc EXCEPT !["end"] = "distributing"]
       ELSE /\ callbackPc' = [callbackPc EXCEPT !["end"] = "failed"]
            /\ UNCHANGED gatewayLog
  /\ UNCHANGED <<schedule, timers, notSched>>

\* distributePrizes answers the end callback, which ends
DistributeAnswers(gatewayOk) ==
  /\ callbackPc["end"] = "distributing"
  /\ callbackPc' = [callbackPc EXCEPT
                      !["end"] = IF gatewayOk THEN "done" ELSE "failed"]
  /\ UNCHANGED <<schedule, timers, gatewayLog, notSched>>

\* start times from an hour ago to 25 days ahead, in hours from now
StartDelays == {-1, 0, 1, 24, 576, 600}
\* durations in hours: the default is 24
Durations == {1, 24, 48}

SchedNext ==
  \/ \E s \in StartDelays, d \in Durations, ok \in BOOLEAN :
       ScheduleTournament(s, d, ok)
  \/ \E t \in timers : TimerFires(t)
  \/ \E ok \in BOOLEAN : StartUpdateAnswers(ok)
  \/ \E ok \in BOOLEAN : EndUpdateAnswers(ok)
  \/ \E ok \in BOOLEAN : DistributeAnswers(ok)

SchedInit ==
  /\ schedule = Null
  /\ timers = {}
  /\ gatewayLog = <<>>
  /\ callbackPc = [c \in {"start", "end"} |-> "unset"]

----------------------------------------------------------------------------
(* Player progress: PlayerStatsService.getPlayerProgress *)

\* PlayerStatsService.calculateExperience
CalculateExperience(stat) ==
  stat.totalGames * 10 + stat.wins * 20 + stat.bestStreak * 5

\* the largest level from k on whose square times 100 is within experience
RECURSIVE LevelFrom(_, _)
LevelFrom(k, experience) ==
  IF (k + 1) * (k + 1) * 100 > experience THEN k
  ELSE LevelFrom(k + 1, experience)

\* a level that grows by one with every 100 points of experience
LevelOf_Linear(experience) == experience \div 100

\* Math.floor(Math.sqrt(experience / 100)), for experience >= 0
LevelOf(experience) == LevelFrom(0, experience)

\* Math.pow(level + 1, 2) * 100
NextLevelExperience(level) == (level + 1) * (level + 1) * 100

\* PlayerStatsService.getPlayerProgress(address).  gatewayOk: whether the
\* Gateway answered the lazy initializePlayerStats (a thrown error leaves the
\* map as it is and nothing is returned)
GetPlayerProgress(address, gatewayOk) ==
  /\ IF gatewayOk \/ HasStats(statsMap, address)
       THEN LET experience ==
                  CalculateExperience(StatsOf(Initialized(address), address))
            IN /\ statsMap' = Initialized(address)
               /\ progress' =
                    [returned |-> TRUE, address |-> address,
                     level |-> LevelOf(experience), experience |-> experience,
                     nextLevelExperience |->
                       NextLevelExperience(LevelOf(experience))]
       ELSE /\ progress' = [progress EXCEPT !.returned = FALSE]
            /\ UNCHANGED statsMap
  /\ UNCHANGED <<games, notProgress>>

\* the player whose progress is followed
ProgressAddress == "a1"

\* stats as they stand after many games: totals on both sides of a level
ProgressUpdates ==
  {[totalGames |-> 10], [totalGames |-> 40], [wins |-> 5], [bestStreak |-> 1]}

ProgressNext ==
  \/ \E o \in Outcomes : PlayGame(ProgressAddress, o)
  \/ \E u \in ProgressUpdates : PlayerStatsUpdate(ProgressAddress, u)
  \/ \E ok \in BOOLEAN : GetPlayerProgress(ProgressAddress, ok)

ProgressInit ==
  progress = [returned |-> FALSE, address |-> NoAddr, level |-> 0,
              experience |-> 0, nextLevelExperience |-> 0]

----------------------------------------------------------------------------
(* Real-time connections: NotificationService.registerWebSocket and the     *)
(* WebSocket push of createNotification                                     *)

\* no connection
NoSocket == 0

\* initWebSocket's 'connection' handler for a connection that names its
\* player: registerWebSocket stores the connection under the address and
\* listens for its close.  A connection is known by its position in sockets.
Connection(playerAddress) ==
  /\ Len(sockets) < MaxSockets
  /\ sockets' = Append(sockets, [address |-> playerAddress, open |-> TRUE])
  /\ wsConnections' = [wsConnections EXCEPT ![playerAddress] = Len(sockets')]
  /\ UNCHANGED <<lastPush, notSockets>>

\* the connection ws closes and the listener registerWebSocket attached to it
\* runs: this.wsConnections.delete(playerAddress)
Close(ws) ==
  /\ ws \in 1..Len(sockets)
  /\ sockets[ws].open
  /\ sockets' = [sockets EXCEPT ![ws].open = FALSE]
  /\ wsConnections' = [wsConnections EXCEPT ![sockets[ws].address] = NoSocket]
  /\ UNCHANGED <<lastPush, notSockets>>

\* the connection of the player that was opened last and is open still
LiveSocket(playerAddress) ==
  LET own == {i \in 1..Len(sockets) : sockets[i].address = playerAddress}
  IN IF own = {} THEN NoSocket
     ELSE LET last == CHOOSE i \in own : \A o \in own : o <= i
          IN IF sockets[last].open THEN last ELSE NoSocket

\* createNotification(type, recipient, ...): the notification is sent on the
\* connection registered for the recipient, if there is one.  enabled: the
\* recipient's preference for the type (a disabled type throws before)
CreateNotification(recipient, enabled) ==
  /\ lastPush' = IF enabled
                   THEN [recipient |-> recipient, sent |-> TRUE,
                         ws |-> wsConnections[recipient],
                         live |-> LiveSocket(recipient)]
                   ELSE [lastPush EXCEPT !.sent = FALSE]
  /\ UNCHANGED <<sockets, wsConnections, notSockets>>

SocketsNext ==
  \/ \E a \in Addresses : Connection(a)
  \/ \E ws \in 1..MaxSockets : Close(ws)
  \/ \E a \in Addresses, enabled \in BOOLEAN : CreateNotification(a, enabled)

SocketsInit ==
  /\ sockets = <<>>
  /\ wsConnections = [a \in Addresses |-> NoSocket]
  /\ lastPush = [recipient |-> NoAddr, sent |-> FALSE, ws |-> NoSocket,
                 live |-> NoSocket]

----------------------------------------------------------------------------
(* Sessions: UserService.createSession / validateSession / endSession /     *)
(* endAllSessions, both variants.  Time is counted in days and advances by  *)
(* a session's lifetime.                                                    *)

\* the lifetime of a session: 24 hours in the first variant, 7 days in the
\* second
SessionDays == 1
SessionDays2 == 7

\* tokens are random UUIDs: every createSession draws one not drawn before,
\* here the number of the tokens issued so far plus one
NewToken == Len(issuedTo) + 1

\* the observer of a session operation
SessionOp(op, token, result) == [op |-> op, token |-> token, result |-> result]

\* the tokens of the sessions held for an address
SessionsOf(address) == {t \in DOMAIN sessions : sessions[t].address = address}

\* this.sessions.delete(token) for every token of a set
DeleteAll(tokens) == [t \in DOMAIN sessions \ tokens |-> sessions[t]]

\* UserService.createSession (first variant)
CreateSession(address) ==
  /\ Len(issuedTo) < MaxTokens
  /\ LET session == [address |-> address, token |-> NewToken,
                     expiresAt |-> now + SessionDays]
     IN /\ sessions' = MapSet(sessions, NewToken, session)
        /\ sessionOp' = SessionOp("createSession", NewToken, session)
  /\ issuedTo' = Append(issuedTo, address)
  /\ UNCHANGED <<now, endedTokens, notSessions>>

\* a validateSession that returns whatever session is stored
Validated_NoExpiry(token) ==
  IF token \notin DOMAIN sessions THEN Null ELSE sessions[token]

\* what validateSession(token) returns at the present time (both variants):
\* the stored session unless its expiresAt lies before now
Validated(token) ==
  IF token \notin DOMAIN sessions \/ sessions[token].expiresAt < now
    THEN Null
    ELSE sessions[token]

\* UserService.validateSession (first variant)
ValidateSession(token) ==
  /\ sessionOp' = SessionOp("validateSession", token, Validated(token))
  /\ UNCHANGED <<sessions, now, issuedTo, endedTokens, notSessions>>

\* UserService.endSession (both variants)
EndSession(token) ==
  /\ sessions' = DeleteAll({token})
  /\ endedTokens' = endedTokens \cup ({token} \cap DOMAIN sessions)
  /\ sessionOp' = SessionOp("endSession", token, Null)
  /\ UNCHANGED <<now, issuedTo, notSessions>>

\* UserService.endAllSessions (both variants: the tokens of the address are
\* deleted, while iterating the map or from a copy of its entries)
EndAllSessions(address) ==
  /\ sessions' = DeleteAll(SessionsOf(address))
  /\ endedTokens' = endedTokens \cup SessionsOf(address)
  /\ sessionOp' = SessionOp("endAllSessions", address, Null)
  /\ UNCHANGED <<now, issuedTo, notSessions>>

\* days pass
ClockAdvances(days) ==
  /\ now < MaxClock * days
  /\ now' = now + days
  /\ UNCHANGED <<sessions, issuedTo, endedTokens, sessionOp, notSessions>>

\* UserService.createSession (second variant): only for an address with a
\* profile ('User not found' otherwise)
CreateSession2(address) ==
  /\ Len(issuedTo) < MaxTokens
  /\ IF address \in DOMAIN users
       THEN LET session == [address |-> address, token |-> NewToken,
                            expiresAt |-> now + SessionDays2]
            IN /\ sessions' = MapSet(sessions, NewToken, session)
               /\ sessionOp' = SessionOp("createSession", NewToken, session)
               /\ issuedTo' = Append(issuedTo, address)
       ELSE /\ sessionOp' = SessionOp("createSession", 0, Null)
            /\ UNCHANGED <<sessions, issuedTo>>
  /\ UNCHANGED <<now, endedTokens, notSessions>>

\* UserService.validateSession (second variant): an expired session is
\* deleted
ValidateSession2(token) ==
  /\ sessionOp' = SessionOp("validateSession", token, Validated(token))
  /\ sessions' = IF token \in DOMAIN sessions /\ Validated(token) = Null
                   THEN DeleteAll({token})
                   ELSE sessions
  /\ UNCHANGED <<now, issuedTo, endedTokens, notSessions>>

\* the tokens a caller may present: the issued ones and one never issued
Tokens == 1..(MaxTokens + 1)

SessionsNext ==
  \/ \E a \in Addresses : CreateSession(a)
  \/ \E t \in Tokens : ValidateSession(t)
  \/ \E t \in Tokens : EndSession(t)
  \/ \E a \in Addresses : EndAllSessions(a)
  \/ ClockAdvances(SessionDays)

Sessions2Next ==
  \/ \E a \in Addresses : CreateProfile(a)
  \/ \E a \in Addresses : CreateSession2(a)
  \/ \E t \in Tokens : ValidateSession2(t)
  \/ \E t \in Tokens : EndSession(t)
  \/ ClockAdvances(SessionDays2)
  \/ \E a \in Addresses : EndAllSessions(a)

SessionsInit ==
  /\ sessions = EmptyMap
  /\ now = 0
  /\ issuedTo = <<>>
  /\ endedTokens = {}
  /\ sessionOp = SessionOp("init", 0, Null)

----------------------------------------------------------------------------
(* Initial values of the other services' state *)

RulesInit ==
  rulesCall = [state |-> "idle", call |-> <<>>, threw |-> FALSE, result |-> <<>>]

AchievementInit ==
  /\ users = EmptyMap
  /\ notifications = <<>>
  /\ achPhase = [a \in Addresses |-> "locked"]
  /\ gameEvents = [a \in Addresses |-> 0]

HistoryInit ==
  /\ tournamentHistory = EmptyMap
  /\ playerHistory = EmptyMap
  /\ history = EmptyMap
  /\ recorded = [id \in TournamentIds |-> [n |-> 0, last |-> Null]]
  /\ sharedPlayers = {}
  /\ lastRecord = RecordOp("init", NoId, FALSE, FALSE)

Init ==
  /\ RegistryInit /\ RulesInit /\ AchievementInit /\ HistoryInit /\ StatsInit
  /\ StoreInit /\ TrendsInit /\ RaceInit /\ StatsCallsInit /\ SchedInit /\ ProgressInit /\ SocketsInit /\ SessionsInit

----------------------------------------------------------------------------
(* Specification of the tournament registry *)

SpecRegistry == Init /\ [][RegistryNext]_vars

(* Specification of the rules engine *)

InitRules ==
  /\ RegistryInit /\ RulesCalled /\ AchievementInit /\ HistoryInit /\ StatsInit
  /\ StoreInit /\ TrendsInit /\ RaceInit /\ StatsCallsInit /\ SchedInit /\ ProgressInit /\ SocketsInit /\ SessionsInit

SpecRules == InitRules /\ [][RulesNext]_vars

(* Specification of users and achievements *)

BetAmounts == {1, 2}

AchievementNext ==
  \/ \E a \in Addresses : CreateProfile(a)
  \/ \E a \in Addresses, bet \in BetAmounts, outcome \in 0..2 :
       GamePlayed(a, bet, outcome)
  \/ \E a \in Addresses : CheckAchievements(a)

SpecAchievements == Init /\ [][AchievementNext]_vars

(* Specification of users and achievements with stats updated by other
   callers of UserService.updateStats as well *)

UserStatsUpdates == {[wins |-> 0], [bestStreak |-> 5]}

UnlockNext ==
  \/ \E a \in Addresses : CreateProfile(a)
  \/ \E a \in Addresses, bet \in BetAmounts, outcome \in 0..2 :
       GamePlayed(a, bet, outcome)
  \/ \E a \in Addresses : CheckAchievements(a)
  \/ \E a \in Addresses, u \in UserStatsUpdates : StatsUpdated(a, u)

SpecUnlocks == Init /\ [][UnlockNext]_vars

(* Specifications of the tournament history, one for each variant *)

SpecHistory == Init /\ [][HistoryNext]_vars

SpecHistoryByPlayer == Init /\ [][HistoryByPlayerNext]_vars

(* Specification of one tournament held by the registry and recorded in the
   history (unnamed variant) *)

SnapshotId == "t1"

SnapshotNext ==
  \/ \E p \in {q \in CreateParams : ValidParams(q)}, ok \in BOOLEAN :
       CreateTournament(SnapshotId, p, ok)
  \/ \E addr \in Addresses, ok \in BOOLEAN :
       \E a \in AnswersFor(SnapshotId) : JoinTournament(SnapshotId, addr, a, ok)
  \/ \E st \in TournamentStatus : UpdateTournamentStatus(SnapshotId, st)
  \/ \E t \in HistoryTournaments, pw \in RosterAnswers :
       RecordTournament(SnapshotId, t, pw[1], pw[2])
  \/ /\ SnapshotId \in DOMAIN tournaments
     /\ \E t \in 1..2 :
          AddTournamentHistory(SnapshotId, t, tournaments[SnapshotId].players,
                               tournaments[SnapshotId].winners, TRUE)

SpecSnapshot == Init /\ [][SnapshotNext]_vars

(* Specification of the player statistics *)

SpecStats == Init /\ [][StatsNext]_vars

(* Specifications of the rules store, one for each variant *)

SpecRulesStore == Init /\ [][StoreNext]_vars

SpecRulesStore2 == Init /\ [][Store2Next]_vars

(* Specification of the tournament trends *)

SpecTrends == Init /\ [][TrendsNext]_vars

(* Specification of the registry as a read-through cache of the Gateway:
   tournaments enter it by getTournament only *)

ReadThroughNext ==
  \/ \E id \in TournamentIds : \E a \in AnswersFor(id) : GetTournament(id, a)
  \/ \E id \in TournamentIds, st \in TournamentStatus :
       UpdateTournamentStatus(id, st)

SpecReadThrough == Init /\ [][ReadThroughNext]_vars

(* Specification of two interleaved joinTournament calls *)

SpecRace == Init /\ [][RaceNext]_vars

(* Specification of two interleaved updateStats calls *)

SpecStatsCalls == Init /\ [][StatsCallsNext]_vars

(* Specification of the scheduled status updates *)

SpecSched == Init /\ [][SchedNext]_vars

(* Specification of the player progress *)

SpecProgress == Init /\ [][ProgressNext]_vars

(* Specification of the real-time connections *)

SpecSockets == Init /\ [][SocketsNext]_vars

(* Specifications of the sessions, one for each variant *)

SpecSessions == Init /\ [][SessionsNext]_vars

SpecSessions2 == Init /\ [][Sessions2Next]_vars

----------------------------------------------------------------------------
(* Claims about the tournament registry *)

\* a step of joinTournament (either variant) for tournament id and address addr
JoinStep(id, addr) ==
  /\ lastOp'.op = "joinTournament"
  /\ lastOp'.id = id
  /\ lastOp'.addr = addr

\* C1: every tournament in the registry has players.length <= maxPlayers, and
\* a join attempted while players.length = maxPlayers fails with a capacity
\* error.
C1_CapacityRespected ==
  [][ /\ \A id \in DOMAIN tournaments' :
           Len(tournaments'[id].players) <= tournaments'[id].maxPlayers
      /\ \A id \in DOMAIN tournaments, addr \in Addresses :
           (JoinStep(id, addr)
              /\ Len(tournaments[id].players) = tournaments[id].maxPlayers)
             => lastOp'.result = "CapacityError" ]_vars

\* C2: a second joinTournament by the same address for the same id fails with
\* a duplicate error and leaves players.length unchanged, so players never
\* contains the same address twice.
C2_NoDuplicateJoin ==
  [][ /\ \A id \in DOMAIN tournaments', addr \in Addresses :
           Count(tournaments'[id].players, addr) <= 1
      /\ \A id \in DOMAIN tournaments, addr \in Addresses :
           (JoinStep(id, addr) /\ Includes(tournaments[id].players, addr))
             => /\ lastOp'.result = "DuplicateError"
                /\ Len(tournaments'[id].players) = Len(tournaments[id].players)
    ]_vars

\* C3: every tournament in the registry whose status is not COMPLETED has an
\* empty winners list (created locally or loaded from the Gateway).
C3_WinnersOnlyWhenCompleted ==
  \A id \in DOMAIN tournaments :
    tournaments[id].status # COMPLETED => tournaments[id].winners = <<>>

\* C4: the status of a tournament never moves backwards in the order
\* UPCOMING < ACTIVE < COMPLETED.
C4_StatusMonotonic ==
  [][ \A id \in DOMAIN tournaments :
        id \in DOMAIN tournaments' =>
          StatusRank(tournaments'[id].status) >= StatusRank(tournaments[id].status)
    ]_vars

\* a step of joinTournament that failed
JoinFailed ==
  /\ lastOp'.op = "joinTournament"
  /\ lastOp'.result \in {"NotFound", "GatewayError"}

\* C5 (as claimed): whenever joinTournament fails, the registry is left
\* unchanged: no player is appended and no tournament is added.
C5_FailedJoinLeavesRegistry ==
  [][ JoinFailed => tournaments' = tournaments ]_vars

\* C5 (amended): whenever joinTournament fails, every tournament already in
\* the registry is unchanged and no player is appended; the only change the
\* registry can show is the Gateway's record of the requested id, cached as
\* the Gateway returned it by the read-through lookup.
C5_FailedJoinAppendsNoPlayer ==
  [][ JoinFailed =>
        /\ \A id \in DOMAIN tournaments :
             id \in DOMAIN tournaments' /\ tournaments'[id] = tournaments[id]
        /\ \A id \in DOMAIN tournaments' \ DOMAIN tournaments :
             /\ id = lastOp'.id
             /\ lastOp'.result = "GatewayError"
             /\ tournaments'[id] \in GatewayAnswers
    ]_vars

\* C5 witness: a joinTournament failed at the Gateway for a tournament that
\* the registry holds.
C5_Witness ==
  /\ lastOp.op = "joinTournament"
  /\ lastOp.result = "GatewayError"
  /\ lastOp.id \in DOMAIN tournaments

\* C6: a createTournament that stores a tournament stores it UPCOMING with an
\* empty players list, and only for valid parameters: with minPlayers >
\* maxPlayers or a negative entryFee or prizePool nothing is stored.
C6_CreateValidates ==
  [][ (lastOp'.op = "createTournament" /\ lastOp'.id \in DOMAIN tournaments')
        => /\ tournaments'[lastOp'.id].status = UPCOMING
           /\ tournaments'[lastOp'.id].players = <<>>
           /\ ValidParams(tournaments'[lastOp'.id]) ]_vars

----------------------------------------------------------------------------
(* Claims about the rules engine *)

RECURSIVE SumAmounts(_)
SumAmounts(s) == IF s = <<>> THEN 0 ELSE Head(s).amount + SumAmounts(Tail(s))

\* a call of op has returned
Returned(op) == rulesCall.state = "returned" /\ rulesCall.call.op = op

\* C7: for every category of the catalog, every non-negative totalPrizePool
\* and every playerCount, the amounts returned by calculatePrizeDistribution
\* sum to at most totalPrizePool.
C7_PrizesWithinPool ==
  (Returned("calculatePrizeDistribution")
     /\ ~rulesCall.threw /\ rulesCall.call.totalPrizePool >= 0)
    => SumAmounts(rulesCall.result) <= rulesCall.call.totalPrizePool

\* C7 witness: all seven ranks of the expert category are paid from a pool
\* that the percentages do not divide, and truncation leaves a remainder.
C7_Witness ==
  /\ Returned("calculatePrizeDistribution")
  /\ rulesCall.call.categoryId = "expert"
  /\ Len(rulesCall.result) = 7
  /\ rulesCall.call.totalPrizePool = 99
  /\ SumAmounts(rulesCall.result) < 99
  /\ SumAmounts(rulesCall.result) > 0

\* C8: getRecommendedCategory returns the category of the player's tier even
\* when averageBet lies below that category's minimum entry fee:
\* {totalGames: 5, winRate: 0.2, averageBet: 1} yields 'beginner' and
\* {totalGames: 100, winRate: 0.7, averageBet: 500} yields 'expert'.
C8_RecommendsTier ==
  Returned("getRecommendedCategory") =>
    /\ rulesCall.call.playerStats =
         [totalGames |-> 5, winRate |-> 20, averageBet |-> Wei(0, 1)]
         => rulesCall.result = "beginner"
    /\ rulesCall.call.playerStats =
         [totalGames |-> 100, winRate |-> 70, averageBet |-> Wei(0, 500)]
         => rulesCall.result = "expert"

\* the constraints of its category that a validateTournamentParams call
\* violates
Violated(c) ==
  LET category == GetCategoryById(c.categoryId) IN
  {k \in {"Entry fee", "Number of players", "Duration"} :
     \/ k = "Entry fee"
        /\ ~(WeiLE(category.minEntryFee, c.entryFee)
             /\ WeiLE(c.entryFee, category.maxEntryFee))
     \/ k = "Number of players"
        /\ ~(c.maxPlayers \in category.minPlayers..category.maxPlayers)
     \/ k = "Duration" /\ ~(c.duration <= category.duration)}

\* C19: for a known category validateTournamentParams returns one error for
\* each violated constraint (entry-fee range, player-count range, maximum
\* duration), all of them, and isValid is true exactly when none is violated.
C19_AllViolationsReported ==
  (Returned("validateTournamentParams")
   /\ GetCategoryById(rulesCall.call.params.categoryId) # Undefined) =>
    LET errors == rulesCall.result.errors
        violated == Violated(rulesCall.call.params)
    IN /\ {errors[i] : i \in 1..Len(errors)} = violated
       /\ Len(errors) = Cardinality(violated)
       /\ rulesCall.result.isValid <=> violated = {}

\* a call that violates all three constraints has returned
C19_Witness ==
  /\ Returned("validateTournamentParams")
  /\ GetCategoryById(rulesCall.call.params.categoryId) # Undefined
  /\ Cardinality(Violated(rulesCall.call.params)) = 3
  /\ Len(rulesCall.result.errors) = 3

----------------------------------------------------------------------------
(* Claims about achievements *)

\* the number of achievement_unlocked notifications sent to address for id
Unlocks(address, id) ==
  Cardinality({i \in 1..Len(notifications) :
                 /\ notifications[i].type = "achievement_unlocked"
                 /\ notifications[i].address = address
                 /\ notifications[i].name = id})

\* C9: after a player's wins went from 0 to 1, the next checkAchievements call
\* for that player emits exactly one achievement_unlocked notification for
\* first_win and every later call emits none: once checkAchievements has run
\* since the transition, exactly one such notification has been emitted (and
\* none before it).
C9_UnlockNotifiedOnce ==
  \A a \in Addresses :
    Unlocks(a, "first_win") = IF achPhase[a] = "checked" THEN 1 ELSE 0

\* C16: stats are updated incrementally by game events: after n GamePlayed
\* events for a registered player, totalGames = n and
\* wins + losses + draws = totalGames.
C16_GamesCounted ==
  \A a \in DOMAIN users :
    /\ users[a].totalGames = gameEvents[a]
    /\ users[a].wins + users[a].losses + users[a].draws = users[a].totalGames

\* getPlayerAchievements(address) reports the achievement id as unlocked
Reported(address, id) ==
  \E i \in 1..Len(GetPlayerAchievements(address)) :
    GetPlayerAchievements(address)[i].id = id

AchievementIds == {achievements[i].id : i \in 1..Len(achievements)}

\* C18: unlocking is one-way: an achievement that getPlayerAchievements
\* reports as unlocked for a player is reported as unlocked after every
\* later stat update, game event and checkAchievements call.
C18_UnlockOneWay ==
  [][ \A a \in Addresses, id \in AchievementIds :
        Reported(a, id) => Reported(a, id)' ]_vars

\* first_win is reported for a player whose wins were set back to 0 after
\* two game events
C18_Witness ==
  /\ "a1" \in DOMAIN users
  /\ Reported("a1", "first_win")
  /\ gameEvents["a1"] >= 2
  /\ users["a1"].wins = 0

----------------------------------------------------------------------------
(* Claims about the tournament history *)

\* the snapshots of tournament id in a list of snapshots
OfTournament(s, id) == LET IsId(h) == h.tournamentId = id IN Filter(s, IsId)

\* C10 (named variant): recordTournament is an idempotent upsert: once a
\* tournament id has been recorded, every player's history holds at most one
\* snapshot of that id, the one recorded last, and getPlayerHistory of each
\* player rostered in it contains it exactly once.
C10_RecordIsUpsert ==
  \A id \in TournamentIds :
    recorded[id].n >= 1 =>
      /\ \A p \in DOMAIN history :
           \A i \in 1..Len(OfTournament(history[p], id)) :
             /\ i = 1
             /\ OfTournament(history[p], id)[i] = recorded[id].last
      /\ \A i \in 1..Len(recorded[id].last.players) :
           OfTournament(GetPlayerHistoryByPlayer(recorded[id].last.players[i]), id)
             = <<recorded[id].last>>

\* C10 (unnamed variant): the same statement of the store kept by id
C10_RecordIsUpsertById ==
  \A id \in TournamentIds :
    recorded[id].n >= 1 =>
      /\ id \in DOMAIN tournamentHistory
      /\ tournamentHistory[id] = recorded[id].last
      /\ \A i \in 1..Len(recorded[id].last.players) :
           OfTournament(GetPlayerHistory(recorded[id].last.players[i]), id)
             = <<recorded[id].last>>

\* whether address appears in the snapshot's players or winners
AppearsIn(address, h) ==
  \/ Includes(h.players, address)
  \/ \E i \in 1..Len(h.winners) : h.winners[i].address = address

\* C11 (unnamed variant): getPlayerHistory(address) returns exactly the
\* current snapshots in which address appears in players or in winners, each
\* once, ordered by startTime descending.
C11_PlayerHistoryExact ==
  \A address \in Addresses :
    LET r == GetPlayerHistory(address)
        current == {h \in {SnapshotOf(id) : id \in DOMAIN tournamentHistory} :
                      AppearsIn(address, h)}
    IN /\ {r[i] : i \in 1..Len(r)} = current
       /\ Len(r) = Cardinality(current)
       /\ \A i \in 1..(Len(r) - 1) : r[i].startTime >= r[i + 1].startTime

\* C17 (unnamed variant): Gateway failures are propagated: when a chain call
\* made by recordTournament has failed, recordTournament fails and the
\* history store is unchanged.
C17_GatewayFailurePropagated ==
  [][ /\ lastRecord' # lastRecord \/ recorded' # recorded
      /\ lastRecord'.op = "recordTournament"
      /\ lastRecord'.failed
      => /\ lastRecord'.threw
         /\ UNCHANGED <<tournamentHistory, playerHistory>>
    ]_vars

----------------------------------------------------------------------------
(* Claims about snapshots and the registry *)

\* a step of the tournament registry
RegistryStep == tournaments' # tournaments \/ lastOp' # lastOp

\* C12: a snapshot is an independent copy: a registry operation
\* (joinTournament, updateTournamentStatus, ...) on a recorded tournament
\* leaves the players and winners of every stored snapshot unchanged.
C12_SnapshotIndependent ==
  [][ RegistryStep =>
        \A id \in DOMAIN tournamentHistory :
          /\ SnapshotOf(id)'.players = SnapshotOf(id).players
          /\ SnapshotOf(id)'.winners = SnapshotOf(id).winners
    ]_vars

----------------------------------------------------------------------------
(* Claims about player statistics and the leaderboard *)

\* the fields of a PlayerStats that are derived from the game history
Derived(stat) ==
  [totalGames |-> stat.totalGames, wins |-> stat.wins, losses |-> stat.losses,
   draws |-> stat.draws, winRate |-> stat.winRate,
   currentStreak |-> stat.currentStreak, bestStreak |-> stat.bestStreak]

\* C13: getPlayerStats is a pure function of the player's recorded game
\* history: the stats it returns for an address are those computed from that
\* address's game history, on every call.
C13_StatsFunctionOfHistory ==
  \A a \in Addresses :
    HasStats(statsMap, a) =>
      Derived(StatsOf(statsMap, a)) = Derived(CalculateStats(a, games[a]))

\* C14: getLeaderboard(limit) returns at most limit entries, ordered by rank
\* score descending, entries of equal score by totalWinAmount descending.
C14_LeaderboardOrdered ==
  \A limit \in 0..MaxLimit :
    LET r == GetLeaderboard(limit) IN
    /\ Len(r) <= limit
    /\ \A i \in 1..(Len(r) - 1) :
         \/ r[i].rank > r[i + 1].rank
         \/ r[i].rank = r[i + 1].rank /\ r[i].totalWon >= r[i + 1].totalWon

\* the orders in which the entries of m can have been inserted
Reorderings(m) ==
  {[i \in 1..Len(m) |-> m[f[i]]] :
     f \in {g \in [1..Len(m) -> 1..Len(m)] :
              \A i, j \in 1..Len(m) : g[i] = g[j] => i = j}}

\* C15: the leaderboard does not depend on the order in which the players
\* were inserted into the stats map.
C15_LeaderboardDeterministic ==
  \A limit \in 0..MaxLimit :
    \A m \in Reorderings(statsMap) : LeaderboardOf(m, limit) = GetLeaderboard(limit)

----------------------------------------------------------------------------
(* Claims about the rules store *)

\* C20: every rule set held in the rules store satisfies minBet <= maxBet,
\* timeLimit > 0, maxRounds >= 1 and minPlayers <= maxPlayers.
C20_StoredRulesValid ==
  \A id \in DOMAIN rules :
    /\ rules[id].minBet <= rules[id].maxBet
    /\ rules[id].timeLimit > 0
    /\ rules[id].maxRounds >= 1
    /\ rules[id].minPlayers <= rules[id].maxPlayers

----------------------------------------------------------------------------
(* Claims about the tournament trends *)

\* the series the days of the tournaments in range call for: one entry per
\* day in ascending order of the days, with the number of tournaments
RECURSIVE SeriesOf(_, _)
SeriesOf(days, CountOf) ==
  IF days = {} THEN <<>>
  ELSE LET first == CHOOSE d \in days : \A o \in days : d <= o
       IN <<[date |-> ToISODate(DateOf(first, 0)), count |-> CountOf[first]]>>
            \o SeriesOf(days \ {first}, CountOf)

\* C21: getTournamentTrends returns one entry per UTC day on which a recorded
\* tournament starts within [startDate, endDate], with the number of those
\* tournaments, in ascending date order and without zero-count days; the
\* series is empty when no tournament falls in the range
C21_TrendsByDay ==
  [][\A s \in TrendStarts, e \in TrendEnds :
       GetTournamentTrends(s, e) =>
         LET inRange == {id \in DOMAIN tournamentHistory :
                           /\ DateLE(s, tournamentHistory[id].startTime)
                           /\ DateLE(tournamentHistory[id].startTime, e)}
             days == {tournamentHistory[id].startTime.day : id \in inRange}
             CountOf == [d \in days |->
                           Cardinality({id \in inRange :
                             tournamentHistory[id].startTime.day = d})]
         IN trends'.dailyTournaments = SeriesOf(days, CountOf)]_vars

----------------------------------------------------------------------------
(* Claims about the prize table *)

\* the prize table of the category of the returned call
PrizeTable == GetCategoryById(rulesCall.call.categoryId).prizeDistribution

\* the number of ranks of the table whose threshold playerCount meets
RanksMet ==
  Cardinality({i \in 1..Len(PrizeTable) :
                 PrizeTable[i].minPlayers <= rulesCall.call.playerCount})

\* the result holds exactly the ranks whose threshold is met, they are the
\* ranks 1..k of the table, and each amount is Amount(percentage)
PaysRanksMet(Amount(_)) ==
  /\ Len(rulesCall.result) = RanksMet
  /\ \A i \in 1..Len(rulesCall.result) :
       /\ rulesCall.result[i].rank = i
       /\ PrizeTable[i].rank = i
       /\ PrizeTable[i].minPlayers <= rulesCall.call.playerCount
       /\ rulesCall.result[i].amount = Amount(PrizeTable[i].percentage)

\* C22 as stated: calculatePrizeDistribution returns exactly the prize-table
\* ranks whose minPlayers threshold is <= playerCount, each with amount =
\* floor(totalPrizePool * percentage / 100), for every pool; the returned
\* ranks are a prefix 1..k of the table.
C22_PaysFloorOfShare ==
  (Returned("calculatePrizeDistribution") /\ ~rulesCall.threw) =>
    LET Floor(percentage) == (rulesCall.call.totalPrizePool * percentage) \div 100
    IN PaysRanksMet(Floor)

\* C22, amended: the same ranks, each with amount = totalPrizePool *
\* percentage / 100 rounded toward zero, which is the floor for the pools
\* that are not negative.
C22_PaysTruncatedShare ==
  (Returned("calculatePrizeDistribution") /\ ~rulesCall.threw) =>
    LET share(percentage) == rulesCall.call.totalPrizePool * percentage
        TowardZero(percentage) ==
          IF share(percentage) >= 0
            THEN share(percentage) \div 100
            ELSE 0 - ((0 - share(percentage)) \div 100)
    IN PaysRanksMet(TowardZero)

\* C22 witness: an intermediate tournament of 8 players pays the ranks 1 and
\* 2 of four from a pool of 99, 49 and 29
C22_Witness ==
  /\ Returned("calculatePrizeDistribution")
  /\ rulesCall.call.categoryId = "intermediate"
  /\ rulesCall.call.playerCount = 8
  /\ rulesCall.call.totalPrizePool = 99
  /\ rulesCall.result = <<[rank |-> 1, amount |-> 49], [rank |-> 2, amount |-> 29]>>

----------------------------------------------------------------------------
(* Claims about streaks *)

\* the length of the longest run of consecutive wins or of consecutive
\* losses in a sequence of outcomes, 0 when it holds neither
LongestRun(outcomes) ==
  LET IsRun(i, j) == \E o \in {"win", "lose"} : \A k \in i..j : outcomes[k] = o
      lengths == {j - i + 1 : i \in 1..Len(outcomes), j \in 1..Len(outcomes)}
      runs == {n \in lengths : \E i \in 1..Len(outcomes) :
                 i + n - 1 <= Len(outcomes) /\ n >= 1 /\ IsRun(i, i + n - 1)}
  IN IF runs = {} THEN 0 ELSE CHOOSE n \in runs : \A o \in runs : o <= n

\* C23: the bestStreak computed from a player's game outcomes, scanned in
\* chronological order, is the length of the longest run of consecutive wins
\* or of consecutive losses.
C23_BestStreakIsLongestRun ==
  [][\A a \in Addresses :
       (GetPlayerStats(a, TRUE) /\ ~HasStats(statsMap, a)) =>
         StatsOf(statsMap', a).bestStreak = LongestRun(games[a])]_vars

----------------------------------------------------------------------------
(* Claims about the registry as a cache *)

\* C24: getTournament(id) for an id absent from the registry queries the
\* Gateway; a record the Gateway returns is stored and returned, and a
\* subsequent getTournament(id) is served from the registry without another
\* Gateway call; when the Gateway returns nothing the result is null and the
\* registry is unchanged.
C24_ReadThroughCache ==
  [][\A id \in TournamentIds, answer \in GatewayAnswers :
       GetTournament(id, answer) =>
         IF id \in DOMAIN tournaments
           THEN /\ ~GatewayAsked(id)
                /\ GetTournamentResult(id, answer) = tournaments[id]
                /\ tournaments' = tournaments
           ELSE /\ GatewayAsked(id)
                /\ GetTournamentResult(id, answer) = answer
                /\ IF answer # Null
                     THEN /\ tournaments' = MapSet(tournaments, id, answer)
                          /\ ~GatewayAsked(id)'
                     ELSE tournaments' = tournaments]_vars

\* C24 witness: t1 was read through from the Gateway, its status was changed
\* in the registry since, and the getTournament that just returned was served
\* the registry's record, which is none the Gateway answers with
C24_Witness ==
  /\ lastOp = Op("getTournament", "t1", NoAddr, "ok")
  /\ "t1" \in DOMAIN tournaments
  /\ tournaments["t1"] \notin GatewayAnswers

----------------------------------------------------------------------------
(* Claims about interleaved calls *)

\* C25: when two joinTournament calls by distinct addresses for the same
\* tournament interleave at their await points, also when the tournament is
\* not cached and both read it through from the Gateway, both addresses are
\* in the registry's players list once both calls have returned
\* successfully.
C25_NoLostJoin ==
  (\A p \in Addresses : joinPc[p] = "done") =>
    \A p \in Addresses : Includes(RegistryPlayers, p)

\* C26: when two PlayerStatsService.updateStats calls for the same address
\* with disjoint fields interleave at their await points, also for an address
\* whose stats are not yet materialized, the stored stats contain both
\* updates once both calls have returned.
C26_NoLostStatsUpdate ==
  (\A c \in Callers : updatePc[c] = "done") =>
    \A c \in Callers :
      \A k \in DOMAIN UpdateOf(c) :
        StatsOf(statsMap, UpdatedAddress)[k] = UpdateOf(c)[k]

----------------------------------------------------------------------------
(* Claims about the scheduled status updates *)

\* the positions of the calls of a kind by a callback in the Gateway log
Issued(call, by) ==
  {i \in 1..Len(gatewayLog) : gatewayLog[i] = [call |-> call, by |-> by]}

\* C27: for a tournament scheduled with a start time and a duration > 0, the
\* start-time status update is issued before the end-time status update, and
\* distributePrizes is issued at most once and only after the end-time
\* status update has completed successfully.
C27_StartBeforeEndThenPrizes ==
  /\ \A e \in Issued("updateTournamentStatus", "end") :
       \E b \in Issued("updateTournamentStatus", "start") : b < e
  /\ Cardinality(Issued("distributePrizes", "end")) <= 1
  /\ \A d \in Issued("distributePrizes", "end") :
       /\ \E e \in Issued("updateTournamentStatus", "end") : e < d
       /\ callbackPc["end"] \in {"distributing", "done", "failed"}

----------------------------------------------------------------------------
(* Claims about the player progress *)

\* C28: getPlayerProgress returns level, experience and nextLevelExperience
\* with level * level * 100 <= experience < nextLevelExperience and
\* nextLevelExperience = (level + 1) * (level + 1) * 100.
C28_LevelBracketsExperience ==
  progress.returned =>
    /\ progress.level * progress.level * 100 <= progress.experience
    /\ progress.experience < progress.nextLevelExperience
    /\ progress.nextLevelExperience =
         (progress.level + 1) * (progress.level + 1) * 100

\* C28 witness: 40 games and nothing else are 400 points, the first of
\* level 2, with 900 as the next level's
C28_Witness ==
  /\ progress.returned
  /\ progress.experience = 400
  /\ progress.level = 2
  /\ progress.nextLevelExperience = 900

----------------------------------------------------------------------------
(* Claims about the real-time connections *)

\* C29: at most one connection is registered per player address and a stale
\* close never unregisters a live one: when a player has registered a second
\* connection and the close of the first fires afterwards, the registered
\* connection is still the second one, and later notifications are pushed to
\* it.
C29_StaleCloseKeepsLive ==
  /\ \A a \in Addresses :
       LiveSocket(a) # NoSocket => wsConnections[a] = LiveSocket(a)
  /\ (lastPush.sent /\ lastPush.live # NoSocket) => lastPush.ws = lastPush.live

----------------------------------------------------------------------------
(* Claims about sessions *)

\* validateSession(t) returns a session only of a token that createSession
\* issued, that was not ended and whose expiry has not passed
ReturnsLiveOnly(t) ==
  sessionOp'.result # Null =>
    /\ t \in 1..Len(issuedTo)
    /\ t \notin endedTokens
    /\ sessionOp'.result.address = issuedTo[t]
    /\ now <= sessionOp'.result.expiresAt

\* after endAllSessions(a) no token of a validates, and every other token
\* validates as it did before
EndsOnlyOwn(a) ==
  \A t \in Tokens :
    Validated(t)' = IF t \in DOMAIN sessions /\ sessions[t].address = a
                      THEN Null
                      ELSE Validated(t)

\* C30: after any sequence of createSession, endSession, endAllSessions and
\* clock advances, validateSession(token) returns a session only if the
\* token was issued by createSession, has not been ended and has not passed
\* its expiry; endAllSessions(address) invalidates every session of that
\* address and leaves the sessions of all other addresses valid.
C30_SessionsValidWhileLive ==
  [][/\ \A t \in Tokens : ValidateSession(t) => ReturnsLiveOnly(t)
     /\ \A a \in Addresses : EndAllSessions(a) => EndsOnlyOwn(a)]_vars

\* C30 for the second variant of UserService
C30_SessionsValidWhileLive2 ==
  [][/\ \A t \in Tokens : ValidateSession2(t) => ReturnsLiveOnly(t)
     /\ \A a \in Addresses : EndAllSessions(a) => EndsOnlyOwn(a)]_vars

\* C30 witness: the sessions of a1 were ended by endAllSessions, one of them
\* before its expiry, and a session of a2 has been validated since
C30_Witness ==
  /\ sessionOp.op = "validateSession"
  /\ sessionOp.result # Null
  /\ sessionOp.result.address = "a2"
  /\ \E t \in endedTokens : issuedTo[t] = "a1"
  /\ \E t \in 1..Len(issuedTo) :
       /\ issuedTo[t] = "a1"
       /\ t \notin endedTokens
       /\ t \in DOMAIN sessions
       /\ sessions[t].expiresAt < now

====
